---- MODULE Spec2Model ----
(***************************************************************************)
(* Model of the trading dashboard of polymarket-statistics: the range      *)
(* filter and the derived series of DashboardPage, and computeAggregates.  *)
(*                                                                         *)
(* Numbers.  Monetary amounts are integers, a range on which the           *)
(* additions and subtractions of IEEE doubles are exact.  A quotient is a  *)
(* JS number value: a reduced fraction, NaN or an infinity.  A square root *)
(* is kept exactly, as sgn * sqrt(num / den).                              *)
(*                                                                         *)
(* Dates.  An instant is a number of hours since 1970-01-01T00:00Z; a date *)
(* string is the sequence of the UTF-16 code units of "YYYY-MM-DD".        *)
(***************************************************************************)
EXTENDS Integers, Sequences, FiniteSets, TLC

VARIABLES
    daily,       \* DailyPnl[]: the records held by the page
    trades,      \* Trade[]
    aggregated,  \* the aggregate summary, or Null before it is computed
    range,       \* "7D" | "30D" | "90D" | "ALL"
    filtered,    \* the memo `filtered`
    series,      \* the memo `series`
    now,         \* the instant new Date() returns (hours since the epoch)
    tz,          \* the offset of local time from UTC, in hours
    pc,          \* the last operation applied
    mode,        \* "cumulative" | "daily": the view mode of the page
    view,        \* viewedUser, lastUpdated and loading of the page
    callers,     \* the arguments and results of the independent callers
    tester,      \* TestBackendPage: its state and its runSnapshot calls in flight
    server,      \* the Next.js server: the last response of the middleware or a route
    browser,     \* the browser: location, session cookie, client session, router
    store,       \* useAuthModal: open, mode
    modal        \* AuthModal: its state and the handler in flight

\* the state of DashboardPage
pageVars == <<daily, trades, aggregated, range, filtered, series, pc, mode, view>>

\* the state added by the specifications of the components below
\* the state of the pages and routes of the authentication flow
authVars == <<server, browser, store, modal>>

restVars == <<mode, view, callers, tester, authVars>>

vars == <<daily, trades, aggregated, range, filtered, series, now, tz, pc, restVars>>

Null == "null"

\* the authentication flow before any request
AuthIdle ==
    /\ server = [response |-> Null, calls |-> {}]
    /\ browser = [location |-> Null, cookie |-> FALSE, pushed |-> <<>>]
    /\ store = [open |-> FALSE, mode |-> "login"]
    /\ modal = Null

\* the components that are not mounted: their state at construction
RestIdle ==
    /\ mode = "cumulative"
    /\ view = [viewedUser |-> "polymarket_user", lastUpdated |-> 0, loading |-> FALSE]
    /\ callers = <<>>
    /\ tester = Null
    /\ AuthIdle

-----------------------------------------------------------------------------
(* Bounds of the model *)

MaxLen == 2          \* longest arbitrary daily sequence
MaxDays == 10        \* longest run of consecutive daily records
MaxTrades == 3       \* longest trade list
MaxAggDaily == 4     \* longest daily list given to computeAggregates

-----------------------------------------------------------------------------
(* Sequences *)

\* s.reduce((a, b) => a + b, 0)
RECURSIVE SeqSum(_)
SeqSum(s) == IF s = <<>> THEN 0 ELSE Head(s) + SeqSum(Tail(s))

\* all sequences over S of length at most n
SeqsUpTo(S, n) == UNION {[1..k -> S] : k \in 0..n}

-----------------------------------------------------------------------------
(* Calendar: the civil date of a day number and back (proleptic Gregorian) *)

\* days from 1970-01-01 to the civil date y-m-d; d may lie outside the month
DaysFromCivil(y, m, d) ==
    LET yy  == IF m <= 2 THEN y - 1 ELSE y
        era == yy \div 400
        yoe == yy - era * 400
        mp  == (m + 9) % 12
        doy == (153 * mp + 2) \div 5 + d - 1
        doe == yoe * 365 + yoe \div 4 - yoe \div 100 + doy
    IN  era * 146097 + doe - 719468

\* the civil date [y, m, d] of day number z
CivilFromDays(z) ==
    LET zz  == z + 719468
        era == zz \div 146097
        doe == zz - era * 146097
        yoe == (doe - doe \div 1460 + doe \div 36524 - doe \div 146096) \div 365
        doy == doe - (365 * yoe + yoe \div 4 - yoe \div 100)
        mp  == (5 * doy + 2) \div 153
        d   == doy - (153 * mp + 2) \div 5 + 1
        m   == IF mp < 10 THEN mp + 3 ELSE mp - 9
        y   == yoe + era * 400 + (IF m <= 2 THEN 1 ELSE 0)
    IN  [y |-> y, m |-> m, d |-> d]

-----------------------------------------------------------------------------
(* JS Date and strings *)

Dash == 45                       \* the code unit of "-"
Digit(n) == 48 + n               \* the code unit of a decimal digit

\* Date.prototype.getDate: the day of the month in local time
GetDate(t) == CivilFromDays((t + tz) \div 24).d

\* Date.prototype.setDate(k): the same local time of day on day k of the local
\* month, k <= 0 reaching into the months before
SetDate(t, k) ==
    LET local == t + tz
        c     == CivilFromDays(local \div 24)
    IN  ((DaysFromCivil(c.y, c.m, 1) + (k - 1)) * 24 + (local % 24)) - tz

\* Date.prototype.toISOString().slice(0, 10): the UTC date as "YYYY-MM-DD"
IsoDate(t) ==
    LET c == CivilFromDays(t \div 24)
    IN  << Digit(c.y \div 1000), Digit((c.y \div 100) % 10),
           Digit((c.y \div 10) % 10), Digit(c.y % 10), Dash,
           Digit(c.m \div 10), Digit(c.m % 10), Dash,
           Digit(c.d \div 10), Digit(c.d % 10) >>

\* a < b on strings: by code units, a proper prefix being smaller
RECURSIVE StrLess(_, _)
StrLess(a, b) ==
    IF b = <<>> THEN FALSE
    ELSE IF a = <<>> THEN TRUE
    ELSE IF Head(a) # Head(b) THEN Head(a) < Head(b)
    ELSE StrLess(Tail(a), Tail(b))

\* (mutation) a > b: a record dated on the cutoff is dropped
StrGT(a, b) == StrLess(b, a)

\* a >= b on strings
StrGE(a, b) == ~StrLess(a, b)

-----------------------------------------------------------------------------
(* The derived series of DashboardPage *)

Ranges == {"7D", "30D", "90D", "ALL"}

\* const cutoff = (days) => { dt = new Date(); dt.setDate(dt.getDate() - days);
\*                            return dt.toISOString().slice(0, 10) }
Cutoff(days) == IsoDate(SetDate(now, GetDate(now) - days))

RangeDays(r) == IF r = "7D" THEN 7 ELSE IF r = "30D" THEN 30 ELSE 90

\* (mutation) no early return for ALL: the 90-day window applies to it too
FilterWithoutAll(d, r) ==
    LET cut == Cutoff(RangeDays(r))
        Keep(rec) == StrGE(rec.date, cut)
    IN  SelectSeq(d, Keep)

\* (mutation) where no record is in the window, every record is shown
FilterOrAll(d, r) ==
    LET cut == Cutoff(RangeDays(r))
        Keep(rec) == StrGE(rec.date, cut)
    IN  IF r = "ALL" \/ SelectSeq(d, Keep) = <<>> THEN d ELSE SelectSeq(d, Keep)

\* the memo `filtered`
FilterByRange(d, r) ==
    IF r = "ALL" THEN d
    ELSE LET cut == Cutoff(RangeDays(r))
             Keep(rec) == StrGE(rec.date, cut)
         IN  SelectSeq(d, Keep)

\* (mutation) the fees keep their sign
PointFeesKept(d, cum) ==
    [date |-> d.date, delta |-> d.realized + d.unrealized - d.fees,
     realized |-> d.realized, unrealized |-> d.unrealized,
     fees |-> d.fees, cumulative |-> cum]

\* the point emitted for record d with the accumulator at cum (after cum += delta)
Point(d, cum) ==
    [date |-> d.date, delta |-> d.realized + d.unrealized - d.fees,
     realized |-> d.realized, unrealized |-> d.unrealized,
     fees |-> -d.fees, cumulative |-> cum]

\* the memo `series`: let cum = 0; filtered.map(d => { ...; cum += delta; ... })
RECURSIVE SeriesFrom(_, _)
SeriesFrom(f, cum) ==
    IF f = <<>> THEN <<>>
    ELSE LET delta == Head(f).realized + Head(f).unrealized - Head(f).fees
             next  == cum + delta
         IN  <<Point(Head(f), next)>> \o SeriesFrom(Tail(f), next)

\* (mutation) the accumulator is declared inside the callback: no carry
BuildSeriesNoCarry(f) ==
    [i \in 1..Len(f) |-> Point(f[i], f[i].realized + f[i].unrealized - f[i].fees)]

\* (mutation) the accumulator is declared outside the call and starts from
\* what the environment left in it
BuildSeriesOuterCum(f) == SeriesFrom(f, now % 2)

BuildSeries(f) == SeriesFrom(f, 0)

-----------------------------------------------------------------------------
(* Inputs of the range filter and the series *)

\* the UTC day number of an instant
UtcDay(t) == t \div 24

\* DailyPnl
Rec(date, realized, unrealized, fees) ==
    [date |-> date, realized |-> realized, unrealized |-> unrealized, fees |-> fees]

\* the instants new Date() is sampled at: 2025-01-03 and 2024-03-05, early
\* and late in the UTC day
Instants ==
    {DaysFromCivil(2025, 1, 3) * 24 + 1, DaysFromCivil(2025, 1, 3) * 24 + 22,
     DaysFromCivil(2024, 3, 5) * 24 + 1, DaysFromCivil(2024, 3, 5) * 24 + 22}

\* local time zones (hours east of UTC)
Zones == {-8, 9}

\* ages of the records, in days before the UTC date of `t`
Ages == {0, 7, 8, 30, 31, 90, 91}

\* (realized, unrealized, fees) of a record
Amounts == {<<10, 0, 0>>, <<-5, 2, 1>>}

RecordsAt(t) ==
    {Rec(IsoDate(t - 24 * a), x[1], x[2], x[3]) : a \in Ages, x \in Amounts}

\* n consecutive daily records ending on the UTC date of t, as the loop of
\* generateMockData pushes them, with amounts varied by `seed`
Consecutive(t, n, seed) ==
    [i \in 1..n |->
        Rec(IsoDate(t - 24 * (n - i)),
            ((i * seed) % 7) - 3, ((i + seed) % 3) - 1, (i * seed) % 2)]

Seeds == {1, 2}

SeriesInputs(t) ==
    SeqsUpTo(RecordsAt(t), MaxLen)
    \cup {Consecutive(t, n, s) : n \in 0..MaxDays, s \in Seeds}

-----------------------------------------------------------------------------
(* SpecSeries: the range filter and the series applied to bounded inputs *)

InitSeries ==
    /\ now \in Instants
    /\ tz \in Zones
    /\ daily \in SeriesInputs(now)
    /\ trades = <<>>
    /\ aggregated = Null
    /\ range = "30D"
    /\ filtered = <<>>
    /\ series = <<>>
    /\ pc = "init"
    /\ RestIdle

\* the memo `filtered` is computed for range r
ApplyFilterByRange(r) ==
    /\ range' = r
    /\ filtered' = FilterByRange(daily, r)
    /\ series' = <<>>
    /\ pc' = "filterByRange"
    /\ UNCHANGED <<daily, trades, aggregated, now, tz, restVars>>

\* the memo `series` is computed from `filtered`
ApplyBuildSeries ==
    /\ pc = "filterByRange"
    /\ series' = BuildSeries(filtered)
    /\ pc' = "buildSeries"
    /\ UNCHANGED <<daily, trades, aggregated, range, filtered, now, tz, restVars>>

NextSeries ==
    \/ \E r \in Ranges : ApplyFilterByRange(r)
    \/ ApplyBuildSeries

SpecSeries == InitSeries /\ [][NextSeries]_vars

-----------------------------------------------------------------------------
(* JS numbers.  A rational number value is [k |-> "fin", num, den] in lowest *)
(* terms with den > 0; a root is [k |-> "fin", sgn, num, den], the number   *)
(* sgn * sqrt(num / den) in lowest terms; NaN and the infinities are values *)
(* of both.                                                                 *)

Abs(i) == IF i < 0 THEN 0 - i ELSE i
Sign(i) == IF i < 0 THEN -1 ELSE IF i = 0 THEN 0 ELSE 1
Max(a, b) == IF a >= b THEN a ELSE b          \* Math.max

RECURSIVE Gcd(_, _)
Gcd(a, b) == IF b = 0 THEN a ELSE Gcd(b, a % b)

NaN == [k |-> "nan"]
Infinity(s) == [k |-> "inf", sgn |-> s]

\* the rational n / d, d > 0
Q(n, d) ==
    LET g == Gcd(Abs(n), d)
    IN  [k |-> "fin", num |-> n \div g, den |-> d \div g]

\* the integer i as a number
Int2Num(i) == Q(i, 1)

\* the sign of a number that is not NaN
NumSign(a) == IF a.k = "inf" THEN a.sgn ELSE Sign(a.num)

\* a / b
NumDiv(a, b) ==
    IF a.k = "nan" \/ b.k = "nan" THEN NaN
    ELSE IF a.k = "inf" THEN
        (IF b.k = "inf" THEN NaN
         ELSE Infinity(a.sgn * (IF b.num < 0 THEN -1 ELSE 1)))
    ELSE IF b.k = "inf" THEN Q(0, 1)
    ELSE IF b.num = 0 THEN
        (IF a.num = 0 THEN NaN ELSE Infinity(Sign(a.num)))
    ELSE Q(Sign(b.num) * a.num * b.den, a.den * Abs(b.num))

\* a + b
NumAdd(a, b) ==
    IF a.k = "nan" \/ b.k = "nan" THEN NaN
    ELSE IF a.k = "inf" THEN
        (IF b.k = "inf" /\ b.sgn # a.sgn THEN NaN ELSE a)
    ELSE IF b.k = "inf" THEN b
    ELSE Q(a.num * b.den + b.num * a.den, a.den * b.den)

\* a - b
NumSub(a, b) ==
    NumAdd(a, IF b.k = "nan" THEN NaN
              ELSE IF b.k = "inf" THEN Infinity(0 - b.sgn)
              ELSE Q(0 - b.num, b.den))

\* Math.pow(a, 2)
Pow2(a) ==
    IF a.k = "nan" THEN NaN
    ELSE IF a.k = "inf" THEN Infinity(1)
    ELSE Q(a.num * a.num, a.den * a.den)

\* the root sgn * sqrt(n / d), n >= 0, d > 0
Root(sgn, n, d) ==
    LET g == Gcd(n, d)
    IN  [k |-> "fin", sgn |-> IF n = 0 THEN 0 ELSE sgn,
         num |-> n \div g, den |-> d \div g]

\* Math.sqrt(a)
Sqrt(a) ==
    IF a.k = "nan" THEN NaN
    ELSE IF a.k = "inf" THEN (IF a.sgn > 0 THEN a ELSE NaN)
    ELSE IF a.num < 0 THEN NaN
    ELSE Root(1, a.num, a.den)

\* a rational number as a root
AsRoot(a) ==
    IF a.k = "fin" THEN Root(Sign(a.num), a.num * a.num, a.den * a.den) ELSE a

\* x / y on roots
RootDiv(x, y) ==
    IF x.k = "nan" \/ y.k = "nan" THEN NaN
    ELSE IF x.k = "inf" THEN
        (IF y.k = "inf" THEN NaN
         ELSE Infinity(x.sgn * (IF y.sgn < 0 THEN -1 ELSE 1)))
    ELSE IF y.k = "inf" THEN Root(0, 0, 1)
    ELSE IF y.sgn = 0 THEN
        (IF x.sgn = 0 THEN NaN ELSE Infinity(x.sgn))
    ELSE Root(x.sgn * y.sgn, x.num * y.den, x.den * y.num)

\* x * y on roots
RootMul(x, y) ==
    IF x.k = "nan" \/ y.k = "nan" THEN NaN
    ELSE IF x.k = "inf" \/ y.k = "inf" THEN
        (IF x.sgn * y.sgn = 0 THEN NaN ELSE Infinity(x.sgn * y.sgn))
    ELSE LET g1 == Gcd(x.num, y.den)
             g2 == Gcd(y.num, x.den)
         IN  Root(x.sgn * y.sgn, (x.num \div g1) * (y.num \div g2),
                  (x.den \div g2) * (y.den \div g1))

\* (mutation) no substitute for a zero standard deviation
OrOneDropped(x) == x

\* x || 1: 0 and NaN are falsy
OrOne(x) ==
    IF x.k = "nan" \/ (x.k = "fin" /\ x.sgn = 0) THEN Root(1, 1, 1) ELSE x

-----------------------------------------------------------------------------
(* computeAggregates *)

\* Trade, of which computeAggregates reads realizedPnl; the optional field is
\* given as <<v>>, or as <<>> for a trade without it
Trade(id, realizedPnl) ==
    IF realizedPnl = <<>> THEN [id |-> id]
    ELSE [id |-> id, realizedPnl |-> realizedPnl[1]]

\* whether t.realizedPnl is defined
HasPnl(t) == "realizedPnl" \in DOMAIN t

\* daily.reduce((s, d) => s + d[field], 0)
RECURSIVE SumField(_, _, _)
SumField(d, field, s) ==
    IF d = <<>> THEN s ELSE SumField(Tail(d), field, s + Head(d)[field])

\* t.realizedPnl ?? b
PnlOr(t, b) == IF HasPnl(t) THEN t.realizedPnl ELSE b

\* (mutation) a trade that broke even, or has no realizedPnl, counts as a win
WinsWithZero(t) ==
    LET IsWin(x) == PnlOr(x, 0) >= 0
    IN  Len(SelectSeq(t, IsWin))

\* trades.filter((t) => (t.realizedPnl ?? 0) > 0).length
Wins(t) ==
    LET IsWin(x) == PnlOr(x, 0) > 0
    IN  Len(SelectSeq(t, IsWin))

\* (mutation) the rate is taken over the trades that have a realizedPnl
WinRateOverDefined(t) ==
    LET n == Len(SelectSeq(t, HasPnl))
    IN  IF n # 0 THEN NumDiv(Int2Num(Wins(t)), Int2Num(n)) ELSE Int2Num(0)

\* (mutation) no guard for an empty trade list
WinRateUnguarded(t) == NumDiv(Int2Num(Wins(t)), Int2Num(Len(t)))

\* trades.length ? wins / trades.length : 0
WinRate(t) ==
    IF Len(t) # 0 THEN NumDiv(Int2Num(Wins(t)), Int2Num(Len(t))) ELSE Int2Num(0)

\* daily.map((d) => d.realized + d.unrealized - d.fees)
Rets(d) == [i \in 1..Len(d) |-> d[i].realized + d[i].unrealized - d[i].fees]

\* rets.reduce((a, b) => a + b, 0) / Math.max(rets.length, 1)
Mean(rets) == NumDiv(Int2Num(SeqSum(rets)), Int2Num(Max(Len(rets), 1)))

\* rets.reduce((s, r) => s + Math.pow(r - mean, 2), 0)
RECURSIVE SumSqDev(_, _, _)
SumSqDev(rets, mean, s) ==
    IF rets = <<>> THEN s
    ELSE SumSqDev(Tail(rets), mean,
                  NumAdd(s, Pow2(NumSub(Int2Num(Head(rets)), mean))))

\* (mutation) the sample variance: the divisor is N - 1
SampleVariance(rets, mean) ==
    NumDiv(SumSqDev(rets, mean, Int2Num(0)), Int2Num(Max(Len(rets) - 1, 1)))

\* rets.reduce(...) / Math.max(rets.length, 1)
Variance(rets, mean) ==
    NumDiv(SumSqDev(rets, mean, Int2Num(0)), Int2Num(Max(Len(rets), 1)))

\* Math.sqrt(...) || 1
Sd(rets, mean) == OrOne(Sqrt(Variance(rets, mean)))

\* (mean / sd) * Math.sqrt(365)
Sharpe(mean, sd) == RootMul(RootDiv(AsRoot(mean), sd), Sqrt(Int2Num(365)))

\* (mutation) the fees are added to the net
NetPnlFeesAdded(totalRealized, totalUnrealized, totalFees) ==
    totalRealized + totalUnrealized + totalFees

\* totalRealized + totalUnrealized - totalFees
NetPnl(totalRealized, totalUnrealized, totalFees) ==
    (totalRealized + totalUnrealized) - totalFees

ComputeAggregates(d, t) ==
    LET totalRealized   == SumField(d, "realized", 0)
        totalUnrealized == SumField(d, "unrealized", 0)
        totalFees       == SumField(d, "fees", 0)
        rets            == Rets(d)
        mean            == Mean(rets)
    IN  [totalRealized |-> totalRealized, totalUnrealized |-> totalUnrealized,
         totalFees |-> totalFees,
         netPnl |-> NetPnl(totalRealized, totalUnrealized, totalFees),
         winRate |-> WinRate(t), tradesCount |-> Len(t),
         sharpe |-> Sharpe(mean, Sd(rets, mean))]

-----------------------------------------------------------------------------
(* SpecAgg: computeAggregates applied to bounded inputs *)

\* (realized, unrealized, fees) of the records given to computeAggregates
AggAmounts == {<<100, -20, 5>>, <<1, 0, 0>>, <<0, 0, 0>>, <<-5, 2, 1>>}

\* the values of realizedPnl
Pnls == {<<>>, <<-3>>, <<5>>}

\* the daily lists: consecutive days ending on the UTC date of t
AggDaily(t) ==
    {[i \in 1..Len(a) |->
        Rec(IsoDate(t - 24 * (Len(a) - i)), a[i][1], a[i][2], a[i][3])] :
        a \in SeqsUpTo(AggAmounts, MaxAggDaily)}

\* the trade lists
AggTrades ==
    {[i \in 1..Len(p) |-> Trade(i, p[i])] : p \in SeqsUpTo(Pnls, MaxTrades)}

InitAgg ==
    /\ now = DaysFromCivil(2025, 1, 3) * 24 + 1
    /\ tz = 9
    /\ daily \in AggDaily(now)
    /\ trades \in AggTrades
    /\ aggregated = Null
    /\ range = "30D"
    /\ filtered = <<>>
    /\ series = <<>>
    /\ pc = "init"
    /\ RestIdle

\* aggregated = computeAggregates(daily, trades)
ApplyComputeAggregates ==
    /\ pc = "init"
    /\ aggregated' = ComputeAggregates(daily, trades)
    /\ pc' = "computeAggregates"
    /\ UNCHANGED <<daily, trades, range, filtered, series, now, tz, restVars>>

NextAgg == ApplyComputeAggregates

SpecAgg == InitAgg /\ [][NextAgg]_vars

-----------------------------------------------------------------------------
(* IEEE 754 doubles, for the arithmetic of computeAggregates on amounts    *)
(* that are not integers.  A natural number is the sequence of its base    *)
(* 2^15 digits, lowest first, with no leading zero; a double is              *)
(* [s, m, e], the number s * m * 2^e with m of 53 bits, or m = <<>> for 0.  *)
(* Every operation rounds to nearest, ties to even.  Subnormals, overflow   *)
(* and NaN do not occur on the amounts of the model.                        *)

Base == 2^15

Limb(a, i) == IF i <= Len(a) THEN a[i] ELSE 0

RECURSIVE LNorm(_)
LNorm(a) ==
    IF a = <<>> \/ a[Len(a)] # 0 THEN a ELSE LNorm(SubSeq(a, 1, Len(a) - 1))

\* a + b + c from digit i on
RECURSIVE LAddFrom(_, _, _, _)
LAddFrom(a, b, i, c) ==
    IF i > Len(a) /\ i > Len(b) THEN (IF c = 0 THEN <<>> ELSE <<c>>)
    ELSE LET t == Limb(a, i) + Limb(b, i) + c
         IN  <<t % Base>> \o LAddFrom(a, b, i + 1, t \div Base)

LAdd(a, b) == LAddFrom(a, b, 1, 0)

\* a - b - c from digit i on, a >= b
RECURSIVE LSubFrom(_, _, _, _)
LSubFrom(a, b, i, c) ==
    IF i > Len(a) THEN <<>>
    ELSE LET t == (a[i] - Limb(b, i)) - c
         IN  <<t % Base>> \o LSubFrom(a, b, i + 1, IF t < 0 THEN 1 ELSE 0)

LSub(a, b) == LNorm(LSubFrom(a, b, 1, 0))

\* a < b, decided at the highest digit where they differ, at or below i
RECURSIVE LLessAt(_, _, _)
LLessAt(a, b, i) ==
    IF i = 0 THEN FALSE
    ELSE IF a[i] # b[i] THEN a[i] < b[i]
    ELSE LLessAt(a, b, i - 1)

LLess(a, b) ==
    IF Len(a) # Len(b) THEN Len(a) < Len(b) ELSE LLessAt(a, b, Len(a))

\* a * k + c from digit i on, k < 2^15
RECURSIVE LMulSmallFrom(_, _, _, _)
LMulSmallFrom(a, k, i, c) ==
    IF i > Len(a) THEN (IF c = 0 THEN <<>> ELSE <<c>>)
    ELSE LET t == a[i] * k + c
         IN  <<t % Base>> \o LMulSmallFrom(a, k, i + 1, t \div Base)

LMulSmall(a, k) == LNorm(LMulSmallFrom(a, k, 1, 0))

\* a * (the number of the digits j.. of b)
RECURSIVE LMulFrom(_, _, _)
LMulFrom(a, b, j) ==
    IF j > Len(b) THEN <<>>
    ELSE LAdd(LMulSmall(a, b[j]), <<0>> \o LMulFrom(a, b, j + 1))

LMul(a, b) == LNorm(LMulFrom(a, b, 1))

\* a * 2^k
LShl(a, k) ==
    LNorm([i \in 1..(k \div 15) |-> 0] \o LMulSmall(a, 2^(k % 15)))

\* the quotient digits i..1 of (rem * Base^i + a[1..i]) / d, d <= 2^15
RECURSIVE LDivSmallFrom(_, _, _, _)
LDivSmallFrom(a, d, i, rem) ==
    IF i = 0 THEN <<>>
    ELSE LET t == rem * Base + a[i]
         IN  LDivSmallFrom(a, d, i - 1, t % d) \o <<t \div d>>

\* floor(a / 2^k)
LShr(a, k) ==
    IF k \div 15 >= Len(a) THEN <<>>
    ELSE LET hi == SubSeq(a, (k \div 15) + 1, Len(a))
         IN  LNorm(LDivSmallFrom(hi, 2^(k % 15), Len(hi), 0))

\* the number of bits of a
LBitLen(a) ==
    IF a = <<>> THEN 0
    ELSE 15 * (Len(a) - 1)
            + (CHOOSE n \in 1..15 : 2^(n - 1) <= a[Len(a)] /\ a[Len(a)] < 2^n)

\* bit i of a, bit 0 the lowest
LBit(a, i) == (Limb(a, (i \div 15) + 1) \div 2^(i % 15)) % 2

FZero == [s |-> 1, m |-> <<>>, e |-> 0]

\* the zero of sign s: +0 or -0
FSignedZero(s) == [s |-> s, m |-> <<>>, e |-> 0]

\* s * M * 2^e (and a little more, if sticky) rounded to a double
FRound(s, M, e, sticky) ==
    LET n == LBitLen(M)
        k == n - 53
        q == LShr(M, k)
        r == LSub(M, LShl(q, k))
        half == LShl(<<1>>, k - 1)
        up == LLess(half, r) \/ (r = half /\ (sticky \/ q[1] % 2 = 1))
        q2 == IF up THEN LAdd(q, <<1>>) ELSE q
    IN  IF n = 0 THEN FZero
        ELSE IF n <= 53 THEN [s |-> s, m |-> LShl(M, 53 - n), e |-> e - (53 - n)]
        ELSE IF LBitLen(q2) = 54 THEN [s |-> s, m |-> LShr(q2, 1), e |-> e + k + 1]
        ELSE [s |-> s, m |-> q2, e |-> e + k]

\* the integer n, |n| < 2^30, as a double
FromInt(n) ==
    FRound(IF n < 0 THEN -1 ELSE 1,
           LNorm(<<Abs(n) % Base, Abs(n) \div Base>>), 0, FALSE)

FNeg(x) == [x EXCEPT !.s = 0 - x.s]

\* x + y
FAdd(x, y) ==
    IF x.m = <<>> /\ y.m = <<>>
    THEN FSignedZero(IF x.s = -1 /\ y.s = -1 THEN -1 ELSE 1)
    ELSE IF x.m = <<>> THEN y
    ELSE IF y.m = <<>> THEN x
    ELSE LET e == IF x.e < y.e THEN x.e ELSE y.e
             a == LShl(x.m, x.e - e)
             b == LShl(y.m, y.e - e)
         IN  IF x.s = y.s THEN FRound(x.s, LAdd(a, b), e, FALSE)
             ELSE IF a = b THEN FZero
             ELSE IF LLess(a, b) THEN FRound(y.s, LSub(b, a), e, FALSE)
             ELSE FRound(x.s, LSub(a, b), e, FALSE)

\* x - y
FSub(x, y) == FAdd(x, FNeg(y))

\* x * y
FMul(x, y) ==
    IF x.m = <<>> \/ y.m = <<>> THEN FSignedZero(x.s * y.s)
    ELSE FRound(x.s * y.s, LMul(x.m, y.m), x.e + y.e, FALSE)

\* qr with n more bits of the quotient: [q, r], the remainder r < d
RECURSIVE DivBits(_, _, _)
DivBits(qr, d, n) ==
    IF n = 0 THEN qr
    ELSE LET r2 == LMulSmall(qr.r, 2)
             q2 == LMulSmall(qr.q, 2)
         IN  IF Len(q2) >= 0 /\ LLess(r2, d)     \* (q2 is evaluated here)
             THEN DivBits([q |-> q2, r |-> r2], d, n - 1)
             ELSE DivBits([q |-> LAdd(q2, <<1>>), r |-> LSub(r2, d)], d, n - 1)

\* x / y, y # 0: 57 bits of the quotient, 14 at a time
FDiv(x, y) ==
    IF x.m = <<>> THEN FSignedZero(x.s * y.s)
    ELSE LET first == IF LLess(x.m, y.m) THEN [q |-> <<>>, r |-> x.m]
                      ELSE [q |-> <<1>>, r |-> LSub(x.m, y.m)]
             qr == DivBits(DivBits(DivBits(DivBits(first, y.m, 14), y.m, 14),
                                   y.m, 14), y.m, 14)
         IN  FRound(x.s * y.s, qr.q, (x.e - y.e) - 56, qr.r # <<>>)

\* qr with the root bits for the bit pairs i, i - 2, .. lo of a: [q, r], the
\* root q and the remainder r
RECURSIVE SqrtBits(_, _, _, _)
SqrtBits(a, i, lo, qr) ==
    IF i < lo THEN qr
    ELSE LET r2 == LAdd(LMulSmall(qr.r, 4),
                        LNorm(<<2 * LBit(a, i + 1) + LBit(a, i)>>))
             t  == LAdd(LMulSmall(qr.q, 4), <<1>>)
         IN  IF LLess(r2, t)
             THEN SqrtBits(a, i - 2, lo, [q |-> LMulSmall(qr.q, 2), r |-> r2])
             ELSE SqrtBits(a, i - 2, lo,
                           [q |-> LAdd(LMulSmall(qr.q, 2), <<1>>), r |-> LSub(r2, t)])

\* Math.sqrt(x), x >= 0: the root of m * 2^k, 14 bits at a time
FSqrt(x) ==
    IF x.m = <<>> THEN x
    ELSE LET k  == IF (x.e - 56) % 2 = 0 THEN 56 ELSE 57
             a  == LShl(x.m, k)
             qr == SqrtBits(a, 26, 0, SqrtBits(a, 54, 28, SqrtBits(a, 82, 56,
                       SqrtBits(a, 110, 84, [q |-> <<>>, r |-> <<>>]))))
         IN  FRound(1, qr.q, (x.e - k) \div 2, qr.r # <<>>)

-----------------------------------------------------------------------------
(* computeAggregates on doubles *)

\* x || 1
FOrOne(x) == IF x.m = <<>> THEN FromInt(1) ELSE x

\* daily.reduce((s, d) => s + d[field], 0)
RECURSIVE FSumField(_, _, _)
FSumField(d, field, s) ==
    IF d = <<>> THEN s ELSE FSumField(Tail(d), field, FAdd(s, Head(d)[field]))

\* daily.map((d) => d.realized + d.unrealized - d.fees)
FRets(d) ==
    [i \in 1..Len(d) |-> FSub(FAdd(d[i].realized, d[i].unrealized), d[i].fees)]

\* rets.reduce((a, b) => a + b, 0) / Math.max(rets.length, 1)
FMean(rets) ==
    FDiv(FSumField([i \in 1..Len(rets) |-> [r |-> rets[i]]], "r", FZero),
         FromInt(Max(Len(rets), 1)))

\* rets.reduce((s, r) => s + Math.pow(r - mean, 2), 0)
RECURSIVE FSumSqDev(_, _, _)
FSumSqDev(rets, mean, s) ==
    IF rets = <<>> THEN s
    ELSE LET dev == FSub(Head(rets), mean)
         IN  FSumSqDev(Tail(rets), mean, FAdd(s, FMul(dev, dev)))

\* Math.sqrt(rets.reduce(...) / Math.max(rets.length, 1)) || 1
FSd(rets, mean) ==
    FOrOne(FSqrt(FDiv(FSumSqDev(rets, mean, FZero), FromInt(Max(Len(rets), 1)))))

\* (mean / sd) * Math.sqrt(365)
FSharpe(mean, sd) == FMul(FDiv(mean, sd), FSqrt(FromInt(365)))

FComputeAggregates(d, t) ==
    LET totalRealized   == FSumField(d, "realized", FZero)
        totalUnrealized == FSumField(d, "unrealized", FZero)
        totalFees       == FSumField(d, "fees", FZero)
        rets            == FRets(d)
        mean            == FMean(rets)
    IN  [totalRealized |-> totalRealized, totalUnrealized |-> totalUnrealized,
         totalFees |-> totalFees,
         netPnl |-> FSub(FAdd(totalRealized, totalUnrealized), totalFees),
         winRate |-> IF Len(t) # 0 THEN FDiv(FromInt(Wins(t)), FromInt(Len(t)))
                     ELSE FZero,
         tradesCount |-> Len(t),
         sharpe |-> FSharpe(mean, FSd(rets, mean))]

-----------------------------------------------------------------------------
(* SpecFloat: computeAggregates applied to amounts in cents *)

MaxFloatDaily == 3   \* longest daily list of amounts in cents

\* Math.round(x * 100) / 100 where the rounding gives c
Cents(c) == FDiv(FromInt(c), FromInt(100))

\* the realized amounts and the fees, in cents
RealizedCents == {-5, 0, 10, 100}
FeeCents == {0, 1}

FloatDaily(t) ==
    {[i \in 1..Len(a) |->
        Rec(IsoDate(t - 24 * (Len(a) - i)), Cents(a[i][1]), FZero, Cents(a[i][2]))] :
        a \in SeqsUpTo(RealizedCents \X FeeCents, MaxFloatDaily)}

InitFloat ==
    /\ now = DaysFromCivil(2025, 1, 3) * 24 + 1
    /\ tz = 9
    /\ daily \in FloatDaily(now)
    /\ trades \in {<<>>, <<Trade(1, <<5>>), Trade(2, <<-3>>), Trade(3, <<>>)>>}
    /\ aggregated = Null
    /\ range = "30D"
    /\ filtered = <<>>
    /\ series = <<>>
    /\ pc = "init"
    /\ RestIdle

\* aggregated = computeAggregates(daily, trades)
ApplyFComputeAggregates ==
    /\ pc = "init"
    /\ aggregated' = FComputeAggregates(daily, trades)
    /\ pc' = "computeAggregates"
    /\ UNCHANGED <<daily, trades, range, filtered, series, now, tz, restVars>>

NextFloat == ApplyFComputeAggregates

SpecFloat == InitFloat /\ [][NextFloat]_vars

-----------------------------------------------------------------------------
(* SpecPure: independent callers of filterByRange, buildSeries and         *)
(* computeAggregates, interleaved, while the clock advances                *)

Callers == {1, 2}

\* the clock: 2025-01-03 early in the UTC day, and late the day after
PureInstants ==
    {DaysFromCivil(2025, 1, 3) * 24 + 1, DaysFromCivil(2025, 1, 4) * 24 + 22}

\* the arguments of a caller: no record and no trade; one record eight
\* days old; nine consecutive days
PureInputs(t) ==
    {<<<<>>, <<>>>>,
     <<<<Rec(IsoDate(t - 24 * 8), 10, 0, 0)>>, <<Trade(1, <<5>>), Trade(2, <<>>)>>>>,
     <<Consecutive(t, 9, 1), <<Trade(1, <<5>>), Trade(2, <<>>)>>>>}

\* the ranges a caller asks for
PureRanges == {"7D", "30D", "ALL"}

\* a caller before its first call
Caller(d, t, r) ==
    [daily |-> d, trades |-> t, range |-> r, filtered |-> <<>>, series |-> <<>>,
     aggregated |-> Null, done |-> {},
     at |-> [filterByRange |-> 0, computeAggregates |-> 0]]

InitPure ==
    /\ now = DaysFromCivil(2025, 1, 3) * 24 + 1
    /\ tz \in Zones
    /\ callers \in [Callers -> {Caller(x[1], x[2], r) :
                        x \in PureInputs(now), r \in PureRanges}]
    /\ daily = <<>>
    /\ trades = <<>>
    /\ aggregated = Null
    /\ range = "30D"
    /\ filtered = <<>>
    /\ series = <<>>
    /\ pc = "init"
    /\ mode = "cumulative"
    /\ view = [viewedUser |-> "polymarket_user", lastUpdated |-> 0, loading |-> FALSE]
    /\ tester = Null
    /\ AuthIdle

\* new Date() moves on
Tick ==
    /\ \E t \in PureInstants : t > now /\ now' = t
    /\ UNCHANGED <<pageVars, tz, callers, tester, authVars>>

\* caller c evaluates filterByRange(daily, range)
CallFilterByRange(c) ==
    /\ callers' = [callers EXCEPT
                     ![c].filtered = FilterByRange(callers[c].daily, callers[c].range),
                     ![c].series = <<>>,
                     ![c].done = (@ \cup {"filterByRange"}) \ {"buildSeries"},
                     ![c].at.filterByRange = now]
    /\ UNCHANGED <<pageVars, now, tz, tester, authVars>>

\* (mutation) the callback negates the fees of the record it is given
\* instead of building a new object
CallBuildSeriesInPlace(c) ==
    /\ "filterByRange" \in callers[c].done
    /\ callers' = [callers EXCEPT
                     ![c].series = BuildSeries(callers[c].filtered),
                     ![c].filtered = [i \in 1..Len(@) |-> [@[i] EXCEPT !.fees = 0 - @]],
                     ![c].daily = [i \in 1..Len(@) |->
                                      IF \E j \in 1..Len(callers[c].filtered) :
                                            callers[c].filtered[j] = @[i]
                                      THEN [@[i] EXCEPT !.fees = 0 - @] ELSE @[i]],
                     ![c].done = @ \cup {"buildSeries"}]
    /\ UNCHANGED <<pageVars, now, tz, tester, authVars>>

\* caller c evaluates buildSeries(filtered)
CallBuildSeries(c) ==
    /\ "filterByRange" \in callers[c].done
    /\ callers' = [callers EXCEPT
                     ![c].series = BuildSeries(callers[c].filtered),
                     ![c].done = @ \cup {"buildSeries"}]
    /\ UNCHANGED <<pageVars, now, tz, tester, authVars>>

\* caller c evaluates computeAggregates(daily, trades)
CallComputeAggregates(c) ==
    /\ callers' = [callers EXCEPT
                     ![c].aggregated = ComputeAggregates(callers[c].daily, callers[c].trades),
                     ![c].done = @ \cup {"computeAggregates"},
                     ![c].at.computeAggregates = now]
    /\ UNCHANGED <<pageVars, now, tz, tester, authVars>>

NextPure ==
    \/ Tick
    \/ \E c \in Callers : CallFilterByRange(c)
    \/ \E c \in Callers : CallBuildSeries(c)
    \/ \E c \in Callers : CallComputeAggregates(c)

SpecPure == InitPure /\ [][NextPure]_vars

-----------------------------------------------------------------------------
(* Spec: DashboardPage on mock data *)

MockDays == 10    \* the days generateMockData covers (`days`, 120 in the source)
MockTrades == 3   \* the trades generateMockData makes (40 in the source)

\* the daily records of generateMockData: one per local calendar day, from
\* days - 1 days ago to today, the amounts drawn at random (by `seed`)
MockDaily(seed) ==
    [k \in 1..MockDays |->
        Rec(IsoDate(SetDate(now, GetDate(now) - (MockDays - k))),
            ((k * seed) % 7) - 3, ((k + seed) % 3) - 1, (k * seed) % 2)]

\* the trades of generateMockData: each has a realizedPnl, drawn at random
MockTradeList(seed) == [i \in 1..MockTrades |-> Trade(i, <<((i * seed) % 5) - 2>>)]

\* the summary generateMockData computes inline (bestMarket and worstMarket,
\* labels taken from the first two trades, are not modelled)
MockAggregated(d, t) ==
    LET totalRealized   == SumField(d, "realized", 0)
        totalUnrealized == SumField(d, "unrealized", 0)
        totalFees       == SumField(d, "fees", 0)
        rets            == Rets(d)
        mean            == NumDiv(Int2Num(SeqSum(rets)), Int2Num(Len(rets)))
        sd              == OrOne(Sqrt(NumDiv(SumSqDev(rets, mean, Int2Num(0)),
                                             Int2Num(Len(rets)))))
    IN  [totalRealized |-> totalRealized, totalUnrealized |-> totalUnrealized,
         totalFees |-> totalFees,
         netPnl |-> (totalRealized + totalUnrealized) - totalFees,
         winRate |-> WinRate(t), tradesCount |-> Len(t),
         sharpe |-> RootMul(RootDiv(AsRoot(mean), sd), Sqrt(Int2Num(365)))]

\* useState(generateMockData()) and the first render
Init ==
    /\ now = DaysFromCivil(2025, 1, 3) * 24 + 1
    /\ tz \in Zones
    /\ \E seed \in Seeds :
          /\ daily = MockDaily(seed)
          /\ trades = MockTradeList(seed)
    /\ aggregated = MockAggregated(daily, trades)
    /\ mode = "cumulative"
    /\ range = "30D"
    /\ view = [viewedUser |-> "polymarket_user", lastUpdated |-> now, loading |-> FALSE]
    /\ filtered = FilterByRange(daily, range)
    /\ series = BuildSeries(filtered)
    /\ pc = "mount"
    /\ callers = <<>>
    /\ tester = Null
    /\ AuthIdle

\* (mutation) the summary follows the range: it is computed over `filtered`
SetRangeSummary(r) ==
    /\ r # range
    /\ range' = r
    /\ filtered' = FilterByRange(daily, r)
    /\ series' = BuildSeries(filtered')
    /\ aggregated' = ComputeAggregates(filtered', trades)
    /\ pc' = "setRange"
    /\ UNCHANGED <<daily, trades, mode, view, now, tz, callers, tester, authVars>>

\* a range button: setRange(r); the render recomputes `filtered`, whose
\* dependencies are [daily, range], and `series`
SetRange(r) ==
    /\ r # range
    /\ range' = r
    /\ filtered' = FilterByRange(daily, r)
    /\ series' = BuildSeries(filtered')
    /\ pc' = "setRange"
    /\ UNCHANGED <<daily, trades, aggregated, mode, view, now, tz, callers, tester, authVars>>

\* a mode button: setMode(m); no memo depends on mode
SetMode(m) ==
    /\ m # mode
    /\ mode' = m
    /\ pc' = "setMode"
    /\ UNCHANGED <<daily, trades, aggregated, range, filtered, series, view, now, tz,
                   callers, tester, authVars>>

\* loadForUser(username), from the search form or Refresh: the state is
\* replaced by new mock data; loading is set and cleared in the same task
LoadForUser(username) ==
    /\ \E seed \in Seeds :
          /\ daily' = MockDaily(seed)
          /\ trades' = MockTradeList(seed)
    /\ aggregated' = MockAggregated(daily', trades')
    /\ view' = [viewedUser |-> username, lastUpdated |-> now, loading |-> FALSE]
    /\ filtered' = FilterByRange(daily', range)
    /\ series' = BuildSeries(filtered')
    /\ pc' = "loadForUser"
    /\ UNCHANGED <<range, mode, now, tz, callers, tester, authVars>>

Next ==
    \/ \E r \in Ranges : SetRange(r)
    \/ \E m \in {"cumulative", "daily"} : SetMode(m)
    \/ \E u \in {"polymarket_user", "alice"} : LoadForUser(u)
    \/ Tick

Spec == Init /\ [][Next]_vars

-----------------------------------------------------------------------------
(* SpecTester: TestBackendPage and its runSnapshot calls *)

MaxRequests == 3   \* the runSnapshot calls that reach fetch in a behaviour

\* DashboardPage is not mounted
PageIdle ==
    /\ now = DaysFromCivil(2025, 1, 3) * 24 + 1
    /\ tz = 9
    /\ daily = <<>>
    /\ trades = <<>>
    /\ aggregated = Null
    /\ range = "30D"
    /\ filtered = <<>>
    /\ series = <<>>
    /\ pc = "init"
    /\ mode = "cumulative"
    /\ view = [viewedUser |-> "polymarket_user", lastUpdated |-> 0, loading |-> FALSE]

\* snap === null
NoSnap == <<>>

InitTester ==
    /\ PageIdle
    /\ callers = <<>>
    /\ AuthIdle
    /\ \E base \in {Null, "http://api"} :
          tester = [API_BASE |-> base, addr |-> "", loading |-> FALSE, snap |-> NoSnap,
                    error |-> Null, inflight |-> {}, issued |-> 0, last |-> "none"]

\* onChange of the address input: setAddr(e.target.value.trim())
SetAddr(a) ==
    /\ tester' = [tester EXCEPT !.addr = a]
    /\ UNCHANGED <<pageVars, now, tz, callers, authVars>>

\* the Clear button
Clear ==
    /\ tester' = [tester EXCEPT !.snap = NoSnap, !.error = Null, !.addr = "",
                                !.last = "clear"]
    /\ UNCHANGED <<pageVars, now, tz, callers, authVars>>

\* catch (e) { setError(e?.message ?? "Request failed"); setSnap(null) }
\* finally { setLoading(false) }, ending call r
Caught(r, message) ==
    [tester EXCEPT !.error = message, !.snap = NoSnap, !.loading = FALSE,
                   !.inflight = @ \ {r}, !.last = "failed"]

\* runSnapshot() up to its first await.  Run Snapshot is disabled while
\* loading or without an address; the Enter key and Refresh now (shown with
\* a snapshot) are not
RunSnapshot(trigger) ==
    /\ trigger = "Run Snapshot" => ~tester.loading /\ tester.addr # ""
    /\ trigger = "Refresh now" => tester.snap # NoSnap
    /\ tester.issued < MaxRequests
    /\ tester' =
          IF tester.addr = "" THEN tester
          ELSE IF tester.API_BASE = Null
          THEN Caught(Null, "NEXT_PUBLIC_API_BASE_URL is not set")
          ELSE [tester EXCEPT
                  !.loading = TRUE, !.error = Null, !.issued = @ + 1,
                  !.inflight = @ \cup {[id |-> tester.issued + 1, addr |-> tester.addr,
                                        at |-> "fetch"]},
                  !.last = "started"]
    /\ UNCHANGED <<pageVars, now, tz, callers, authVars>>

\* await fetch(...) settles for call r: it rejects, or resolves with a
\* response that is ok or not
FetchSettles(r, outcome) ==
    /\ r \in tester.inflight /\ r.at = "fetch"
    /\ tester' =
          IF outcome = "ok"
          THEN [tester EXCEPT !.inflight = (@ \ {r}) \cup {[r EXCEPT !.at = "json"]}]
          ELSE IF outcome = "not ok"
          THEN [tester EXCEPT !.inflight = (@ \ {r}) \cup {[r EXCEPT !.at = "text"]}]
          ELSE IF outcome = "TypeError" THEN Caught(r, "Failed to fetch")
          ELSE Caught(r, "Request failed")
    /\ UNCHANGED <<pageVars, now, tz, callers, authVars>>

\* await res.text().catch(() => "") settles for call r and the error
\* `HTTP ${res.status}${text ? ` - ${text.slice(0, 140)}` : ""}` is thrown
\* (the separator is an en dash in the source)
TextSettles(r, text) ==
    /\ r \in tester.inflight /\ r.at = "text"
    /\ tester' = Caught(r, IF text = "" THEN "HTTP 500" ELSE "HTTP 500 - " \o text)
    /\ UNCHANGED <<pageVars, now, tz, callers, authVars>>

\* await res.json() settles for call r: setSnap(data), or the body does not
\* parse
JsonSettles(r, parses) ==
    /\ r \in tester.inflight /\ r.at = "json"
    /\ tester' =
          IF parses
          THEN [tester EXCEPT !.snap = <<[trades |-> <<>>, meta |-> [request |-> r.id,
                                                                  addr |-> r.addr]]>>,
                              !.loading = FALSE, !.inflight = @ \ {r}, !.last = "shown"]
          ELSE Caught(r, "Unexpected token")
    /\ UNCHANGED <<pageVars, now, tz, callers, authVars>>

NextTester ==
    \/ \E a \in {"", "0xabc"} : SetAddr(a)
    \/ Clear
    \/ \E trigger \in {"Run Snapshot", "Enter", "Refresh now"} : RunSnapshot(trigger)
    \/ \E r \in tester.inflight, outcome \in {"ok", "not ok", "TypeError", "undefined"} :
          FetchSettles(r, outcome)
    \/ \E r \in tester.inflight, text \in {"", "oops"} : TextSettles(r, text)
    \/ \E r \in tester.inflight, parses \in BOOLEAN : JsonSettles(r, parses)

SpecTester == InitTester /\ [][NextTester]_vars

-----------------------------------------------------------------------------
(* Strings and URLs.  A string is a sequence of chunks: a reserved          *)
(* character stands alone, the unreserved characters between two reserved  *)
(* ones are one chunk or several.                                          *)

\* the percent-encoding of the reserved characters
Escaped ==
    [c \in {"/", "?", "=", "&", " ", "%", ":"} |->
        CASE c = "/" -> "%2F" [] c = "?" -> "%3F" [] c = "=" -> "%3D"
          [] c = "&" -> "%26" [] c = " " -> "%20" [] c = "%" -> "%25"
          [] c = ":" -> "%3A"]

\* (mutation) the string is spliced into the URL as it is
EncodeNothing(s) == s

\* encodeURIComponent(s)
EncodeURIComponent(s) ==
    [i \in 1..Len(s) |-> IF s[i] \in DOMAIN Escaped THEN Escaped[s[i]] ELSE s[i]]

\* URLSearchParams.toString(): name=value pairs joined by &, a space as +
RECURSIVE QueryToString(_)
QueryToString(q) ==
    IF q = <<>> THEN <<>>
    ELSE LET Form(x) == [i \in 1..Len(x) |->
                            IF x[i] = " " THEN "+" ELSE EncodeURIComponent(x)[i]]
         IN  Form(q[1][1]) \o <<"=">> \o Form(q[1][2])
                \o (IF Len(q) > 1 THEN <<"&">> \o QueryToString(Tail(q)) ELSE <<>>)

\* the query parser of URL: the pairs of a query string, their names and
\* values decoded
RECURSIVE ParseQuery(_)
ParseQuery(s) ==
    IF s = <<>> THEN <<>>
    ELSE LET IndexOf(x, c) ==
                 IF \E i \in 1..Len(x) : x[i] = c
                 THEN CHOOSE i \in 1..Len(x) : x[i] = c /\ \A j \in 1..(i - 1) : x[j] # c
                 ELSE 0
             Unescape(x) ==
                 [i \in 1..Len(x) |->
                     IF \E c \in DOMAIN Escaped : Escaped[c] = x[i]
                     THEN CHOOSE c \in DOMAIN Escaped : Escaped[c] = x[i]
                     ELSE IF x[i] = "+" THEN " " ELSE x[i]]
             amp   == IndexOf(s, "&")
             first == IF amp = 0 THEN s ELSE SubSeq(s, 1, amp - 1)
             rest  == IF amp = 0 THEN <<>> ELSE SubSeq(s, amp + 1, Len(s))
             eq    == IndexOf(first, "=")
             pair  == IF eq = 0 THEN <<Unescape(first), <<>>>>
                      ELSE <<Unescape(SubSeq(first, 1, eq - 1)),
                             Unescape(SubSeq(first, eq + 1, Len(first)))>>
         IN  (IF first = <<>> THEN <<>> ELSE <<pair>>) \o ParseQuery(rest)

\* new URL(s, origin): an absolute or protocol-relative s names its own
\* origin, any other s is resolved against `origin`
NewURL(s, origin) ==
    LET abs  == Len(s) >= 4 /\ SubSeq(s, 1, 4) = <<"https", ":", "/", "/">>
        rel  == ~abs /\ Len(s) >= 2 /\ SubSeq(s, 1, 2) = <<"/", "/">>
        host == IF abs THEN 5 ELSE 3
        tail == IF abs \/ rel THEN SubSeq(s, host + 1, Len(s)) ELSE s
        qm   == IF \E i \in 1..Len(tail) : tail[i] = "?"
                THEN CHOOSE i \in 1..Len(tail) :
                        tail[i] = "?" /\ \A j \in 1..(i - 1) : tail[j] # "?"
                ELSE 0
        path == IF qm = 0 THEN tail ELSE SubSeq(tail, 1, qm - 1)
    IN  [origin |-> IF abs \/ rel THEN (IF Len(s) >= host THEN s[host] ELSE "") ELSE origin,
         pathname |-> IF path = <<>> THEN <<"/">> ELSE path,
         query |-> IF qm = 0 THEN <<>> ELSE ParseQuery(SubSeq(tail, qm + 1, Len(tail)))]

\* searchParams.get(name): <<>> for null, <<value>> for a value
Get(q, name) ==
    IF \E i \in 1..Len(q) : q[i][1] = name
    THEN <<q[CHOOSE i \in 1..Len(q) : q[i][1] = name
                 /\ \A j \in 1..(i - 1) : q[j][1] # name][2]>>
    ELSE <<>>

\* searchParams.set(name, value): the first pair of that name takes the
\* value and the others are removed, or the pair is appended
Set(q, name, value) ==
    IF Get(q, name) = <<>> THEN Append(q, <<name, value>>)
    ELSE LET first == CHOOSE i \in 1..Len(q) : q[i][1] = name
                         /\ \A j \in 1..(i - 1) : q[j][1] # name
             Other(pair) == pair[1] # name
         IN  SubSeq(q, 1, first - 1) \o <<<<name, value>>>>
                \o SelectSeq(SubSeq(q, first + 1, Len(q)), Other)

-----------------------------------------------------------------------------
(* The server: the middleware and the two auth routes *)

\* url.origin of every request
Origin == "app.example"

\* a response: NextResponse.next() ("next"), NextResponse.redirect(url)
\* ("redirect", location <<url>>) or NextResponse.json(body, {status});
\* `calls` are the calls the handler made on its way to it
Response(kind, status, location, body, calls) ==
    [kind |-> kind, status |-> status, location |-> location, body |-> body,
     calls |-> calls]

\* config.matcher: '/dashboard/:path*'
Matcher(pathname) ==
    \/ pathname = <<"/", "dashboard">>
    \/ Len(pathname) >= 3 /\ SubSeq(pathname, 1, 3) = <<"/", "dashboard", "/">>

\* (mutation) the redirect parameter keeps the path and drops the query
MiddlewarePathOnly(req) ==
    IF Len(req.pathname) >= 2 /\ SubSeq(req.pathname, 1, 2) = <<"/", "dashboard">>
       /\ ~req.session
    THEN Response("redirect", 307,
            <<[origin |-> Origin, pathname |-> <<"/">>,
               query |-> Set(Set(req.query, <<"login">>, <<"1">>),
                             <<"redirect">>, req.pathname)]>>, Null, {"getSession"})
    ELSE Response("next", 200, <<>>, Null, {"getSession"})

\* middleware(req): req.session is what supabase.auth.getSession() finds in
\* the cookies of the request
Middleware(req) ==
    IF Len(req.pathname) >= 2 /\ SubSeq(req.pathname, 1, 2) = <<"/", "dashboard">>
       /\ ~req.session
    THEN Response("redirect", 307,
            <<[origin |-> Origin, pathname |-> <<"/">>,
               query |-> Set(Set(req.query, <<"login">>, <<"1">>),
                             <<"redirect">>,
                             req.pathname \o (IF QueryToString(req.query) # <<>>
                                              THEN <<"?">> \o QueryToString(req.query)
                                              ELSE <<>>))]>>, Null, {"getSession"})
    ELSE Response("next", 200, <<>>, Null, {"getSession"})

\* what the server answers to a request for a page: the middleware runs on
\* the paths of the matcher only
Served(req) ==
    IF Matcher(req.pathname) THEN Middleware(req)
    ELSE Response("next", 200, <<>>, Null, {})

\* (mutation) a failed exchange is ignored
GETIgnoringError(query, error) ==
    LET code == Get(query, <<"code">>)
        next == IF Get(query, <<"next">>) \in {<<>>, <<<<>>>>}
                THEN <<"/", "dashboard">> ELSE Get(query, <<"next">>)[1]
    IN  Response("redirect", 307, <<NewURL(next, Origin)>>, Null,
                 IF code \in {<<>>, <<<<>>>>} THEN {} ELSE {"exchangeCodeForSession"})

\* GET /auth/callback with the search parameters `query`; `error` is what
\* exchangeCodeForSession returns: <<>> for none, <<message>> for an error
GET(query, error) ==
    LET code == Get(query, <<"code">>)
        next == IF Get(query, <<"next">>) \in {<<>>, <<<<>>>>}
                THEN <<"/", "dashboard">> ELSE Get(query, <<"next">>)[1]
    IN  IF code \in {<<>>, <<<<>>>>}
        THEN Response("redirect", 307, <<NewURL(next, Origin)>>, Null, {})
        ELSE IF error # <<>>
        THEN Response("redirect", 307,
                <<NewURL(<<"/", "?", "login", "=", "1", "&", "error", "=">>
                            \o EncodeURIComponent(error[1]), Origin)>>, Null,
                {"exchangeCodeForSession"})
        ELSE Response("redirect", 307, <<NewURL(next, Origin)>>, Null,
                {"exchangeCodeForSession", "cookieStore.set"})

\* (mutation) only the access token is required
POSTOneToken(json, error) ==
    IF json = <<>> \/ "access_token" \notin DOMAIN json[1] \/ json[1].access_token = ""
    THEN Response("json", 400, <<>>, [ok |-> FALSE, error |-> "Missing tokens"], {})
    ELSE IF error # <<>>
    THEN Response("json", 401, <<>>, [ok |-> FALSE, error |-> error[1]],
                  {"cookies", "setSession"})
    ELSE Response("json", 200, <<>>, [ok |-> TRUE, error |-> Null],
                  {"cookies", "setSession", "cookieStore.set"})

\* POST /auth/set; json is what req.json().catch(() => null) gives: <<>> for
\* null or a body that is not an object, <<object>> for an object; `error`
\* is what setSession returns: <<>> for none, <<message>> for an error
POST(json, error) ==
    LET access_token  == IF json # <<>> /\ "access_token" \in DOMAIN json[1]
                         THEN json[1].access_token ELSE ""
        refresh_token == IF json # <<>> /\ "refresh_token" \in DOMAIN json[1]
                         THEN json[1].refresh_token ELSE ""
    IN  IF access_token = "" \/ refresh_token = ""
        THEN Response("json", 400, <<>>, [ok |-> FALSE, error |-> "Missing tokens"], {})
        ELSE IF error # <<>>
        THEN Response("json", 401, <<>>, [ok |-> FALSE, error |-> error[1]],
                      {"cookies", "setSession"})
        ELSE Response("json", 200, <<>>, [ok |-> TRUE, error |-> Null],
                      {"cookies", "setSession", "cookieStore.set"})

-----------------------------------------------------------------------------
(* The authentication flow: the browser, the store useAuthModal, the        *)
(* component AuthModal of the Header of the home page, and the server       *)

\* AuthModal as useState initialises it.  step is where the handler called
\* last stands: the await it is suspended at, or how the call ended
\* ("invalid" for the return on an empty field, "thrown", "returned",
\* "confirm" for the return of handleSignup without a session) until the
\* form is touched again, or "idle"; next is the `next` of the render that
\* called it
Mounted(initialMode) ==
    [mode |-> initialMode, email |-> "", password |-> "", busy |-> FALSE,
     error |-> Null, message |-> Null, step |-> "idle", next |-> <<>>]

\* (mutation) the form is reset when the modal opens only
RenderedOnOpen(m, s, t) ==
    IF ~s.open /\ t.open
    THEN [m EXCEPT !.mode = t.mode, !.email = "", !.password = "",
                   !.error = Null, !.message = Null,
                   !.step = IF @ \in {"invalid", "thrown", "returned", "confirm"}
                            THEN "idle" ELSE @]
    ELSE m

\* AuthModal m after the store went from s to t: the effect "reset state when
\* modal opens or mode changes from outside" runs when one of its
\* dependencies [initialMode, open] changed
Rendered(m, s, t) ==
    IF s.open # t.open \/ s.mode # t.mode
    THEN [m EXCEPT !.mode = t.mode, !.email = "", !.password = "",
                   !.error = Null, !.message = Null,
                   !.step = IF @ \in {"invalid", "thrown", "returned", "confirm"}
                         THEN "idle" ELSE @]
    ELSE m

\* const next = searchParams.get("redirect") || "/dashboard"
NextOf(query) ==
    IF Get(query, <<"redirect">>) \in {<<>>, <<<<>>>>}
    THEN <<"/", "dashboard">> ELSE Get(query, <<"redirect">>)[1]

\* the home page, the only page that renders the Header and its AuthModal
AtHome == browser.location.origin = Origin /\ browser.location.pathname = <<"/">>

\* the home page in a new browser; browser.cookie tells whether the cookies
\* hold a session, browser.pushed is the navigation router.push started
\* (<<>> for none), browser.via how the location was reached and
\* browser.clicked whether a button of the page opened the modal
InitAuth ==
    /\ PageIdle
    /\ callers = <<>>
    /\ tester = Null
    /\ server = [request |-> [route |-> "none"],
                 response |-> Response("next", 200, <<>>, Null, {})]
    /\ browser = [location |-> [origin |-> Origin, pathname |-> <<"/">>, query |-> <<>>],
                  cookie |-> FALSE, pushed |-> <<>>, via |-> "user", clicked |-> FALSE]
    /\ store = [open |-> FALSE, mode |-> "login"]
    /\ modal = Mounted("login")

\* the user loads a page: the request passes the middleware where the matcher
\* applies, the browser follows a redirect, and the page mounts with a new
\* store and a new AuthModal
Visit(pathname, query) ==
    LET req == [route |-> "page", pathname |-> pathname, query |-> query,
                session |-> browser.cookie]
        r   == Served(req)
    IN  /\ server' = [request |-> req, response |-> r]
        /\ browser' = [browser EXCEPT
              !.location = IF r.kind = "redirect" THEN r.location[1]
                           ELSE [origin |-> Origin, pathname |-> pathname,
                                 query |-> query],
              !.via = IF r.kind = "redirect" THEN "middleware" ELSE "user",
              !.clicked = FALSE, !.pushed = <<>>]
        /\ store' = [open |-> FALSE, mode |-> "login"]
        /\ modal' = Mounted("login")
        /\ UNCHANGED <<pageVars, now, tz, callers, tester>>

\* router.push(next) of handleLogin takes effect: a client-side navigation,
\* whose request passes the middleware; the store outlives it
Route ==
    /\ browser.pushed # <<>>
    /\ LET url == NewURL(browser.pushed[1], Origin)
           req == [route |-> "page", pathname |-> url.pathname, query |-> url.query,
                   session |-> browser.cookie]
           r   == IF url.origin = Origin THEN Served(req)
                  ELSE Response("next", 200, <<>>, Null, {})
       IN  /\ server' = [request |-> req, response |-> r]
           /\ browser' = [browser EXCEPT
                 !.location = IF r.kind = "redirect" THEN r.location[1] ELSE url,
                 !.via = IF r.kind = "redirect" THEN "middleware" ELSE "push",
                 !.clicked = FALSE, !.pushed = <<>>]
           /\ modal' = Mounted(store.mode)
    /\ UNCHANGED <<store, pageVars, now, tz, callers, tester>>

\* openLogin (Log In of the Header) and openSignup (Sign Up, Get started);
\* the open modal covers the page and its buttons
Open(m) ==
    /\ AtHome /\ ~store.open
    /\ store' = [open |-> TRUE, mode |-> m]
    /\ modal' = Rendered(modal, store, store')
    /\ browser' = [browser EXCEPT !.clicked = TRUE]
    /\ UNCHANGED <<server, pageVars, now, tz, callers, tester>>

\* close: the Escape key, the backdrop, the close button
Close ==
    /\ AtHome /\ store.open
    /\ store' = [store EXCEPT !.open = FALSE]
    /\ modal' = Rendered(modal, store, store')
    /\ UNCHANGED <<server, browser, pageVars, now, tz, callers, tester>>

\* the inputs of the form: setEmail, setPassword
Type(email, password) ==
    /\ AtHome /\ store.open
    /\ <<email, password>> # <<modal.email, modal.password>>
    /\ modal' = [modal EXCEPT !.email = email, !.password = password,
                 !.step = IF @ \in {"invalid", "thrown", "returned", "confirm"}
                         THEN "idle" ELSE @]
    /\ UNCHANGED <<server, browser, store, pageVars, now, tz, callers, tester>>

\* the links of the modal that switch between log in and sign up: setMode
SwitchMode(m) ==
    /\ AtHome /\ store.open /\ modal.mode # m
    /\ modal' = [modal EXCEPT !.mode = m,
                 !.step = IF @ \in {"invalid", "thrown", "returned", "confirm"}
                         THEN "idle" ELSE @]
    /\ UNCHANGED <<server, browser, store, pageVars, now, tz, callers, tester>>

\* the end of withBusy around a handler that threw e: setError, setBusy(false)
Thrown(m, message) ==
    [m EXCEPT !.error = IF message = "" THEN "Something went wrong." ELSE message,
              !.busy = FALSE, !.step = "thrown", !.next = <<>>]

\* (mutation) a failure of the cookie sync ends the login like a failed sign-in
LoggedInOrThrown(synced) ==
    IF synced
    THEN /\ store' = [store EXCEPT !.open = FALSE]
         /\ modal' = [Rendered([modal EXCEPT !.message = "Logged in! Redirecting..."],
                               store, store')
                        EXCEPT !.busy = FALSE, !.step = "returned", !.next = <<>>]
         /\ browser' = [browser EXCEPT !.pushed = <<modal.next>>, !.cookie = TRUE]
    ELSE /\ modal' = Thrown(modal, "Failed to fetch")
         /\ UNCHANGED <<browser, store>>

\* the end of handleLogin after the sign-in: setMessage("Logged in!
\* Redirecting" and an ellipsis), onClose(), router.push(next), and
\* setBusy(false) of withBusy; synced tells whether /auth/set stored the
\* session in the cookies
LoggedIn(synced) ==
    /\ store' = [store EXCEPT !.open = FALSE]
    /\ modal' = [Rendered([modal EXCEPT !.message = "Logged in! Redirecting..."],
                          store, store')
                   EXCEPT !.busy = FALSE, !.step = "returned", !.next = <<>>]
    /\ browser' = [browser EXCEPT !.pushed = <<modal.next>>, !.cookie = @ \/ synced]

\* the form is submitted in the login mode: handleLogin up to its first await
HandleLogin ==
    /\ AtHome /\ store.open /\ modal.mode = "login"
    /\ ~modal.busy
    /\ modal' =
          IF modal.email = "" \/ modal.password = ""
          THEN [modal EXCEPT !.error = "Please enter your email and password.",
                             !.message = Null, !.step = "invalid"]
          ELSE [modal EXCEPT !.error = Null, !.message = Null, !.busy = TRUE,
                             !.step = "signInWithPassword",
                             !.next = NextOf(browser.location.query)]
    /\ UNCHANGED <<server, browser, store, pageVars, now, tz, callers, tester>>

\* await supabase.auth.signInWithPassword settles: error is <<>> for a
\* session, <<message>> for the error it returns or throws
SignInSettles(error) ==
    /\ modal.step = "signInWithPassword"
    /\ modal' = IF error # <<>> THEN Thrown(modal, error[1])
                ELSE [modal EXCEPT !.step = "getSession"]
    /\ UNCHANGED <<server, browser, store, pageVars, now, tz, callers, tester>>

\* await supabase.auth.getSession() settles: with the session, with none, or
\* it throws
GetSessionSettles(outcome) ==
    /\ modal.step = "getSession"
    /\ IF outcome = "session"
       THEN /\ modal' = [modal EXCEPT !.step = "fetch"]
            /\ UNCHANGED <<browser, store>>
       ELSE LoggedIn(FALSE)
    /\ UNCHANGED <<server, pageVars, now, tz, callers, tester>>

\* await fetch("/auth/set", ...) settles: the server answered (error is what
\* its setSession returned), or the request failed
AuthSetSettles(answered, error) ==
    /\ modal.step = "fetch"
    /\ IF answered
       THEN LET req == [route |-> "set",
                        json |-> <<[access_token |-> "at", refresh_token |-> "rt"]>>,
                        error |-> error]
                r   == POST(req.json, error)
            IN  /\ server' = [request |-> req, response |-> r]
                /\ LoggedIn(r.body.ok)
       ELSE /\ LoggedIn(FALSE)
            /\ UNCHANGED server
    /\ UNCHANGED <<pageVars, now, tz, callers, tester>>

\* (mutation) withBusy starts fn whatever busy is
InvokeWhileBusy(handler) ==
    /\ AtHome /\ store.open
    /\ handler = "handleSignup" => modal.mode = "signup"
    /\ modal' =
          IF handler = "handleSignup" /\ (modal.email = "" \/ modal.password = "")
          THEN [modal EXCEPT !.error = "Please enter your email and password.",
                             !.message = Null, !.step = "invalid"]
          ELSE IF handler = "handleMagicLink" /\ modal.email = ""
          THEN [modal EXCEPT !.error = "Enter an email to receive a magic link.",
                             !.message = Null, !.step = "invalid"]
          ELSE [modal EXCEPT !.error = Null, !.message = Null, !.busy = TRUE,
                             !.step = CASE handler = "handleSignup" -> "signUp"
                                        [] handler = "handleOAuth" -> "signInWithOAuth"
                                        [] handler = "handleMagicLink" -> "signInWithOtp",
                             !.next = NextOf(browser.location.query)]
    /\ UNCHANGED <<server, browser, store, pageVars, now, tz, callers, tester>>

\* handleSignup (the form submitted in the signup mode), handleOAuth (a
\* provider button) or handleMagicLink is called: withBusy, which returns at
\* once when busy, and the handler up to its await
Invoke(handler) ==
    /\ AtHome /\ store.open
    /\ handler = "handleSignup" => modal.mode = "signup"
    /\ ~modal.busy
    /\ modal' =
          IF handler = "handleSignup" /\ (modal.email = "" \/ modal.password = "")
          THEN [modal EXCEPT !.error = "Please enter your email and password.",
                             !.message = Null, !.step = "invalid"]
          ELSE IF handler = "handleMagicLink" /\ modal.email = ""
          THEN [modal EXCEPT !.error = "Enter an email to receive a magic link.",
                             !.message = Null, !.step = "invalid"]
          ELSE [modal EXCEPT !.error = Null, !.message = Null, !.busy = TRUE,
                             !.step = CASE handler = "handleSignup" -> "signUp"
                                        [] handler = "handleOAuth" -> "signInWithOAuth"
                                        [] handler = "handleMagicLink" -> "signInWithOtp",
                             !.next = NextOf(browser.location.query)]
    /\ UNCHANGED <<server, browser, store, pageVars, now, tz, callers, tester>>

\* (mutation) a signup that awaits the confirmation ends like one with a
\* session
SettlesAlwaysIn(error, session) ==
    /\ modal.step \in {"signUp", "signInWithOAuth", "signInWithOtp"}
    /\ session => modal.step = "signUp" /\ error = <<>>
    /\ IF error # <<>>
       THEN /\ modal' = Thrown(modal, error[1])
            /\ UNCHANGED <<browser, store>>
       ELSE IF modal.step = "signUp"
       THEN /\ store' = [store EXCEPT !.open = FALSE]
            /\ modal' = [Rendered(modal, store, store')
                           EXCEPT !.busy = FALSE,
                                  !.step = IF session THEN "returned" ELSE "confirm",
                                  !.next = <<>>]
            /\ browser' = [browser EXCEPT !.pushed = <<modal.next>>]
       ELSE /\ modal' = [modal EXCEPT
                  !.message = IF modal.step = "signInWithOtp"
                              THEN "Magic link sent! Check your email." ELSE @,
                  !.busy = FALSE, !.step = "returned", !.next = <<>>]
            /\ browser' = IF modal.step = "signInWithOAuth"
                          THEN [browser EXCEPT !.location.origin = "provider.example"]
                          ELSE browser
            /\ UNCHANGED store
    /\ UNCHANGED <<server, pageVars, now, tz, callers, tester>>

\* the await of the handler in flight settles: supabase.auth.signUp,
\* signInWithOAuth or signInWithOtp; error is <<>> for none and <<message>>
\* for the error it returns or throws, session is data.session of signUp.
\* After signInWithOAuth the browser leaves for the provider.
Settles(error, session) ==
    /\ modal.step \in {"signUp", "signInWithOAuth", "signInWithOtp"}
    /\ session => modal.step = "signUp" /\ error = <<>>
    /\ IF error # <<>>
       THEN /\ modal' = Thrown(modal, error[1])
            /\ UNCHANGED <<browser, store>>
       ELSE IF modal.step = "signUp" /\ session
       THEN /\ store' = [store EXCEPT !.open = FALSE]
            /\ modal' = [Rendered(modal, store, store')
                           EXCEPT !.busy = FALSE, !.step = "returned", !.next = <<>>]
            /\ browser' = [browser EXCEPT !.pushed = <<modal.next>>]
       ELSE IF modal.step = "signUp"
       THEN /\ modal' = [modal EXCEPT
                  !.message = "Account created. Check your email to confirm.",
                  !.mode = "login", !.busy = FALSE, !.step = "confirm", !.next = <<>>]
            /\ UNCHANGED <<browser, store>>
       ELSE /\ modal' = [modal EXCEPT
                  !.message = IF modal.step = "signInWithOtp"
                              THEN "Magic link sent! Check your email." ELSE @,
                  !.busy = FALSE, !.step = "returned", !.next = <<>>]
            /\ browser' = IF modal.step = "signInWithOAuth"
                          THEN [browser EXCEPT !.location.origin = "provider.example"]
                          ELSE browser
            /\ UNCHANGED store
    /\ UNCHANGED <<server, pageVars, now, tz, callers, tester>>

NextAuth ==
    \/ \E pathname \in {<<"/">>, <<"/", "dashboard">>, <<"/", "dashboard", "_demo">>},
          query \in {<<>>,
                     << <<<<"q">>, <<"x", "&", "y">>>>, <<<<"login">>, <<"0">>>> >>,
                     << <<<<"redirect">>, <<"/", "dashboard", "/", "settings">>>> >>} :
          Visit(pathname, query)
    \/ Route
    \/ \E m \in {"login", "signup"} : Open(m)
    \/ Close
    \/ \E email \in {"", "a@b.c"}, password \in {"", "pw"} : Type(email, password)
    \/ \E m \in {"login", "signup"} : SwitchMode(m)
    \/ HandleLogin
    \/ \E error \in {<<>>, <<"Invalid login credentials">>, <<"">>} : SignInSettles(error)
    \/ \E outcome \in {"session", "null", "throws"} : GetSessionSettles(outcome)
    \/ \E answered \in BOOLEAN, error \in {<<>>, <<"expired">>} :
          AuthSetSettles(answered, error)
    \/ \E handler \in {"handleSignup", "handleOAuth", "handleMagicLink"} : Invoke(handler)
    \/ \E error \in {<<>>, <<"User already registered">>, <<"">>}, session \in BOOLEAN :
          Settles(error, session)

SpecAuth == InitAuth /\ [][NextAuth]_vars

-----------------------------------------------------------------------------
(* The routes of the server as any client may call them *)

\* the browser is sent to /auth/callback by the OAuth provider and follows
\* the redirect of the route
CallbackRequest(query, error) ==
    LET req == [route |-> "callback", query |-> query, error |-> error]
        r   == GET(query, error)
        url == r.location[1]
        set == "cookieStore.set" \in r.calls
        r2  == IF url.origin = Origin
               THEN Served([route |-> "page", pathname |-> url.pathname,
                            query |-> url.query, session |-> browser.cookie \/ set])
               ELSE Response("next", 200, <<>>, Null, {})
    IN  /\ server' = [request |-> req, response |-> r]
        /\ browser' = [browser EXCEPT
              !.location = IF r2.kind = "redirect" THEN r2.location[1] ELSE url,
              !.via = IF r2.kind = "redirect" THEN "middleware" ELSE "callback",
              !.cookie = @ \/ set,
              !.clicked = FALSE, !.pushed = <<>>]
        /\ store' = [open |-> FALSE, mode |-> "login"]
        /\ modal' = Mounted("login")
        /\ UNCHANGED <<pageVars, now, tz, callers, tester>>

\* a client posts json to /auth/set and keeps the cookies of the answer
AuthSetRequest(json, error) ==
    LET req == [route |-> "set", json |-> json, error |-> error]
        r   == POST(json, error)
    IN  /\ server' = [request |-> req, response |-> r]
        /\ browser' = [browser EXCEPT !.cookie = @ \/ r.body.ok]
        /\ UNCHANGED <<store, modal, pageVars, now, tz, callers, tester>>

NextRoutes ==
    \/ \E pathname \in {<<"/">>, <<"/", "dashboard">>,
                        <<"/", "dashboard", "/", "settings">>,
                        <<"/", "dashboard", "_demo">>},
          query \in {<<>>,
                     << <<<<"tab">>, <<"a", " ", "b">>>> >>,
                     << <<<<"q">>, <<"x", "&", "y">>>>, <<<<"login">>, <<"0">>>> >>,
                     << <<<<"redirect">>, <<"/", "dashboard", "/", "settings">>>> >>} :
          Visit(pathname, query)
    \/ \E query \in
            {<<>>,
             << <<<<"code">>, <<"c1">>>> >>,
             << <<<<"code">>, <<>>>>,
                <<<<"next">>, <<"/", "dashboard", "/", "settings">>>> >>,
             << <<<<"code">>, <<"c1">>>>, <<<<"next">>, <<>>>> >>,
             << <<<<"code">>, <<"c1">>>>,
                <<<<"next">>, <<"/", "dashboard", "?", "tab", "=", "a">>>> >>,
             << <<<<"code">>, <<"c1">>>>,
                <<<<"next">>, <<"/", "/", "evil.example", "/", "x">>>> >>},
          error \in {<<>>, <<<<"invalid", " ", "grant", "&", "next", "=", "x">>>>,
                     <<<<"expired">>>>} :
          CallbackRequest(query, error)
    \/ \E json \in {<<>>,
                    <<[access_token |-> "at", refresh_token |-> "rt"]>>,
                    <<[access_token |-> "at"]>>,
                    <<[refresh_token |-> "rt"]>>,
                    <<[access_token |-> "", refresh_token |-> "rt"]>>,
                    <<[access_token |-> "at", refresh_token |-> ""]>>,
                    <<[other |-> "x"]>>},
          error \in {<<>>, <<"expired">>} :
          AuthSetRequest(json, error)

SpecRoutes == InitAuth /\ [][NextRoutes]_vars

-----------------------------------------------------------------------------
(* Claims on the range filter and the series *)

\* the net of a daily record
Net(d) == d.realized + d.unrealized - d.fees

\* the sum of the numbers of s, the last one added last
RECURSIVE Sigma(_)
Sigma(s) ==
    IF Len(s) = 0 THEN 0 ELSE Sigma(SubSeq(s, 1, Len(s) - 1)) + s[Len(s)]

\* the sum of the nets of the first i records of f
NetUpTo(f, i) == Sigma([k \in 1..i |-> Net(f[k])])

\* the day number a date string "YYYY-MM-DD" names
DayOfIso(str) ==
    LET n(i) == str[i] - 48
    IN  DaysFromCivil(n(1) * 1000 + n(2) * 100 + n(3) * 10 + n(4),
                      n(6) * 10 + n(7), n(9) * 10 + n(10))

\* the records (10,0,0), (-5,2,1) of the cumulative-sum scenario, dated today
\* and a week ago
Scenario ==
    <<Rec(IsoDate(now - 24 * 7), 10, 0, 0), Rec(IsoDate(now), -5, 2, 1)>>

\* C1: every emitted point has delta = realized + unrealized - fees of its
\* record and cumulative = the sum of the deltas up to it, the accumulator
\* starting at 0: cumulative_1 = delta_1, cumulative_i - cumulative_(i-1) = delta_i
C1_CumulativeSum ==
    pc = "buildSeries" =>
        /\ Len(series) = Len(filtered)
        /\ \A i \in 1..Len(series) :
            /\ series[i].delta = Net(filtered[i])
            /\ series[i].cumulative = NetUpTo(filtered, i)
            /\ i = 1 => series[i].cumulative = series[i].delta
            /\ i > 1 => series[i].cumulative - series[i - 1].cumulative
                            = series[i].delta

C1_Witness ==
    /\ pc = "buildSeries"
    /\ filtered = Scenario
    /\ [i \in 1..2 |-> series[i].delta] = <<10, -4>>
    /\ [i \in 1..2 |-> series[i].cumulative] = <<10, 6>>

\* C2: the series has one point per input record, in input order, carrying
\* the record's date, realized and unrealized unchanged and its fees negated
C2_OnePointPerRecord ==
    pc = "buildSeries" =>
        /\ Len(series) = Len(filtered)
        /\ \A i \in 1..Len(series) :
            /\ series[i].date = filtered[i].date
            /\ series[i].realized = filtered[i].realized
            /\ series[i].unrealized = filtered[i].unrealized
            /\ series[i].fees = 0 - filtered[i].fees
            /\ filtered[i].fees >= 0 => series[i].fees <= 0

\* ten points, with a fee charged on some day and none on another
C2_Witness ==
    /\ pc = "buildSeries"
    /\ Len(series) = 10
    /\ \E i, j \in 1..10 : series[i].fees < 0 /\ series[j].fees = 0
    /\ \A i \in 1..9 : StrLess(series[i].date, series[i + 1].date)

\* the records of d dated on or after day number c, in their order
OnOrAfter(d, c) ==
    LET Keep(rec) == DayOfIso(rec.date) >= c
    IN  SelectSeq(d, Keep)

\* C3: for 7D, 30D, 90D the filter returns exactly the records dated on or
\* after today - N days (today being the UTC date of now), in their order
C3_RangeCutoff ==
    (pc = "filterByRange" /\ range # "ALL") =>
        filtered = OnOrAfter(daily, UtcDay(now) - RangeDays(range))

\* ten consecutive daily records ending today under 7D: the eight dated
\* today - 7 .. today are returned, the first of them on the boundary
C3_Witness ==
    /\ pc = "filterByRange"
    /\ range = "7D"
    /\ Len(daily) = 10
    /\ \A i \in 1..10 : DayOfIso(daily[i].date) = UtcDay(now) - (10 - i)
    /\ filtered = SubSeq(daily, 3, 10)
    /\ DayOfIso(filtered[1].date) = UtcDay(now) - 7

\* C4: for ALL the filter returns the daily list itself
C4_AllIsIdentity ==
    (pc = "filterByRange" /\ range = "ALL") => filtered = daily

\* ALL keeps a record older than every window, and an unsorted order
C4_Witness ==
    /\ pc = "filterByRange"
    /\ range = "ALL"
    /\ Len(filtered) = 2
    /\ DayOfIso(filtered[1].date) = UtcDay(now)
    /\ DayOfIso(filtered[2].date) = UtcDay(now) - 91

-----------------------------------------------------------------------------
(* Claims on computeAggregates *)

Applied == pc = "computeAggregates"

\* the daily returns r_i, their number N, their sum S, the sum Q of their
\* squares, and N * Q - S * S, which is N * N times their population variance
Returns == [i \in 1..Len(daily) |-> Net(daily[i])]
RetN == Len(daily)
RetS == Sigma(Returns)
RetQ == Sigma([i \in 1..RetN |-> Returns[i] * Returns[i]])
RetD == RetN * RetQ - RetS * RetS

\* the trades with a realizedPnl, and those of them that are wins
DefinedTrades == {i \in 1..Len(trades) : HasPnl(trades[i])}
WinningTrades == {i \in DefinedTrades : trades[i].realizedPnl > 0}

\* n / d in lowest terms, d > 0
Lowest(n, d) == <<n \div Gcd(n, d), d \div Gcd(n, d)>>

\* C5: the three totals are the sums of realized, unrealized and fees over
\* the whole daily list, and netPnl = totalRealized + totalUnrealized - totalFees
C5_Totals ==
    Applied =>
        /\ aggregated.totalRealized = Sigma([i \in 1..RetN |-> daily[i].realized])
        /\ aggregated.totalUnrealized = Sigma([i \in 1..RetN |-> daily[i].unrealized])
        /\ aggregated.totalFees = Sigma([i \in 1..RetN |-> daily[i].fees])
        /\ aggregated.netPnl = aggregated.totalRealized
                + aggregated.totalUnrealized - aggregated.totalFees

\* totals 100, -20, 5 over three records: netPnl 75
C5_Witness ==
    /\ Applied
    /\ RetN = 3
    /\ aggregated.totalRealized = 100
    /\ aggregated.totalUnrealized = -20
    /\ aggregated.totalFees = 5
    /\ aggregated.netPnl = 75

\* C6: tradesCount counts every trade, wins counts the trades whose
\* realizedPnl is defined and > 0, winRate = wins / tradesCount, and 0
\* when there are no trades
C6_WinRate ==
    Applied =>
        /\ aggregated.tradesCount = Len(trades)
        /\ aggregated.winRate.k = "fin"
        /\ IF Len(trades) > 0
           THEN <<aggregated.winRate.num, aggregated.winRate.den>>
                    = Lowest(Cardinality(WinningTrades), Len(trades))
           ELSE aggregated.winRate.num = 0

\* realizedPnl 5, -3, undefined: tradesCount 3, winRate 1/3
C6_Witness ==
    /\ Applied
    /\ trades = <<Trade(1, <<5>>), Trade(2, <<-3>>), Trade(3, <<>>)>>
    /\ aggregated.tradesCount = 3
    /\ aggregated.winRate = Q(1, 3)

\* C7 as stated: winRate is the share of wins among the trades that have a
\* realizedPnl, the others being left out of the denominator; 0 without trades
C7_OverDefinedTrades ==
    Applied =>
        /\ aggregated.winRate.k = "fin"
        /\ Len(trades) = 0 => aggregated.winRate.num = 0
        /\ DefinedTrades # {} =>
            <<aggregated.winRate.num, aggregated.winRate.den>>
                = Lowest(Cardinality(WinningTrades), Cardinality(DefinedTrades))

\* C7 amended: winRate is the share of wins among all the trades: a trade
\* with no realizedPnl is left out of the numerator and counted in the
\* denominator; 0 without trades
C7_OverAllTrades ==
    Applied =>
        /\ aggregated.winRate.k = "fin"
        /\ Len(trades) = 0 => aggregated.winRate.num = 0
        /\ aggregated.winRate.num * Len(trades)
             = Cardinality(WinningTrades) * aggregated.winRate.den
        /\ aggregated.winRate.num * Cardinality(DefinedTrades)
             <= Cardinality(WinningTrades) * aggregated.winRate.den

\* a win and a trade with no realizedPnl: winRate 1/2
C7_Witness ==
    /\ Applied
    /\ trades = <<Trade(1, <<5>>), Trade(2, <<>>)>>
    /\ aggregated.winRate = Q(1, 2)

\* C8: where the returns vary, sharpe = (mean / sd) * sqrt(365) with mean the
\* average of the returns and sd their population standard deviation, that
\* is sharpe has the sign of S and sharpe^2 = 365 * S^2 / (N * Q - S^2)
C8_Sharpe ==
    (Applied /\ RetD # 0) =>
        /\ aggregated.sharpe.k = "fin"
        /\ aggregated.sharpe.sgn = Sign(RetS)
        /\ <<aggregated.sharpe.num, aggregated.sharpe.den>>
              = Lowest(365 * RetS * RetS, RetD)

\* returns 1, 0, 0: mean 1/3, variance 2/9, sharpe = sqrt(365 / 2)
C8_Witness ==
    /\ Applied
    /\ Returns = <<1, 0, 0>>
    /\ aggregated.sharpe = Root(1, 365, 2)

\* the returns of the daily list, as doubles
FReturns == FRets(daily)

\* C9: where the daily list is non-empty and its returns are all equal, sd
\* is taken as 1 and sharpe = mean * sqrt(365)
C9_ZeroVariance ==
    (Applied /\ Len(daily) > 0 /\ \A i \in 1..Len(daily) : FReturns[i] = FReturns[1]) =>
        aggregated.sharpe = FMul(FMean(FReturns), FSqrt(FromInt(365)))

\* constant returns 0.1, 0.1, 0.1: the mean is 0.10000000000000002, the
\* deviations are not 0, sd = 1.3877787807814457e-17 is kept and
\* sharpe = 1.3766584011167086e+17
C9_Witness ==
    /\ Applied
    /\ FReturns = <<Cents(10), Cents(10), Cents(10)>>
    /\ aggregated.sharpe = [s |-> 1, m |-> <<32101, 17713, 17814, 244>>, e |-> 4]

\* C10: on an empty daily list and an empty trade list winRate, tradesCount,
\* netPnl and the three totals are 0
C10_Empty ==
    (Applied /\ daily = <<>> /\ trades = <<>>) =>
        /\ aggregated.winRate.k = "fin"
        /\ aggregated.winRate.num = 0
        /\ aggregated.tradesCount = 0
        /\ aggregated.netPnl = 0
        /\ aggregated.totalRealized = 0
        /\ aggregated.totalUnrealized = 0
        /\ aggregated.totalFees = 0

C10_Witness ==
    /\ Applied
    /\ daily = <<>>
    /\ trades = <<>>
    /\ aggregated.winRate = Int2Num(0)
    /\ aggregated.netPnl = 0

-----------------------------------------------------------------------------
(* Claims on the independent callers *)

Did(c, op) == op \in callers[c].done

\* the cutoff of a range as a call made at instant t computed it
CutoffAt(t, r) == IsoDate(SetDate(t, GetDate(t) - RangeDays(r)))

C12_Total ==
    \A c \in Callers :
        /\ Did(c, "filterByRange") =>
              /\ Len(callers[c].filtered) <= Len(callers[c].daily)
              /\ (/\ callers[c].range # "ALL"
                  /\ \A i \in 1..Len(callers[c].daily) :
                        StrLess(callers[c].daily[i].date,
                                CutoffAt(callers[c].at.filterByRange, callers[c].range)))
                    => callers[c].filtered = <<>>
        /\ Did(c, "buildSeries") =>
              /\ Len(callers[c].series) = Len(callers[c].filtered)
              /\ callers[c].filtered = <<>> => callers[c].series = <<>>
        /\ Did(c, "computeAggregates") =>
              /\ callers[c].aggregated.tradesCount = Len(callers[c].trades)
              /\ callers[c].aggregated.sharpe.k = "fin"

\* a caller holds one record, eight days old, asked for 7 days and got the
\* empty sequence and the empty series
C12_Witness ==
    \E c \in Callers :
        /\ Len(callers[c].daily) = 1
        /\ callers[c].range = "7D"
        /\ Did(c, "buildSeries")
        /\ callers[c].filtered = <<>>
        /\ callers[c].series = <<>>

\* C13: a call changes neither the daily list nor the trade list of any
\* caller, nor anything of another caller, nor the page; the results a
\* caller holds are those of its own arguments
C13_Pure ==
    /\ [][/\ \A c \in Callers :
               /\ callers'[c].daily = callers[c].daily
               /\ callers'[c].trades = callers[c].trades
               /\ (\/ callers'[c].done # callers[c].done
                   \/ callers'[c].at # callers[c].at
                   \/ callers'[c].filtered # callers[c].filtered) =>
                     \A e \in Callers \ {c} :
                        /\ callers'[e].done = callers[e].done
                        /\ callers'[e].at = callers[e].at
                        /\ callers'[e].filtered = callers[e].filtered
                        /\ callers'[e].series = callers[e].series
          /\ UNCHANGED pageVars]_vars
    /\ [](\A c \in Callers :
            /\ Did(c, "buildSeries") =>
                  callers[c].series = BuildSeries(callers[c].filtered)
            /\ Did(c, "computeAggregates") =>
                  callers[c].aggregated
                     = ComputeAggregates(callers[c].daily, callers[c].trades))

\* both callers made all three calls, on different arguments
C13_Witness ==
    /\ \A c \in Callers : callers[c].done = {"filterByRange", "buildSeries", "computeAggregates"}
    /\ callers[1].daily # callers[2].daily
    /\ Len(callers[1].series) = 9
    /\ Len(callers[2].series) = 1

-----------------------------------------------------------------------------
(* Claims on DashboardPage *)

\* C14: the summary is the one of the full daily set whatever the range and
\* the mode, and a selection of a range or of a mode changes neither daily,
\* trades nor the summary; the series is the one of the range's records
C14_SummaryFrame ==
    /\ [](/\ aggregated = ComputeAggregates(daily, trades)
          /\ series = BuildSeries(filtered)
          /\ range = "ALL" => filtered = daily)
    /\ [][(range' # range \/ mode' # mode) =>
             /\ UNCHANGED <<daily, trades, aggregated>>
             /\ (mode' # mode => UNCHANGED <<filtered, series>>)]_vars

\* the daily mode and 7 days were selected: the series is shorter than the
\* daily list and the summary still totals every record
C14_Witness ==
    /\ mode = "daily"
    /\ range = "7D"
    /\ Len(series) < Len(daily)
    /\ series # <<>>
    /\ aggregated.totalFees = SumField(daily, "fees", 0)
    /\ aggregated.totalFees # SumField(filtered, "fees", 0)

-----------------------------------------------------------------------------
(* Claims on the snapshot tester *)

\* C15: a runSnapshot call that fails leaves an error message and no
\* snapshot, and whenever an error is set there is no snapshot
C15_ErrorMeansNoSnap ==
    /\ tester.last = "failed" => tester.error # Null /\ tester.snap = NoSnap
    /\ tester.error # Null => tester.snap = NoSnap

\* a failed call's error stands next to the snapshot of a later call
C15_Witness ==
    /\ tester.error = "HTTP 500"
    /\ tester.snap # NoSnap
    /\ tester.last = "shown"
    /\ ~tester.loading

\* C24: loading is true whenever a runSnapshot request is in flight, and
\* once none is in flight the snapshot displayed is the response of the
\* request issued last
C24_LatestWins ==
    /\ tester.inflight # {} => tester.loading
    /\ (tester.inflight = {} /\ tester.snap # NoSnap)
          => tester.snap[1].meta.request = tester.issued

\* two requests overlapped and both succeeded, the second one first: no
\* request is in flight, no error is set, and the snapshot shown is the
\* response of the first request
C24_Witness ==
    /\ tester.inflight = {}
    /\ ~tester.loading
    /\ tester.error = Null
    /\ tester.issued = 2
    /\ tester.snap # NoSnap
    /\ tester.snap[1].meta.request = 1

-----------------------------------------------------------------------------
(* Claims on the middleware *)

\* the response r sends the browser to the home page with login=1 and a
\* redirect parameter that names the path and the query of the request
RedirectedToLogin(req, r) ==
    /\ r.kind = "redirect"
    /\ r.location[1].origin = Origin
    /\ r.location[1].pathname = <<"/">>
    /\ Get(r.location[1].query, <<"login">>) = << <<"1">> >>
    /\ Get(r.location[1].query, <<"redirect">>) # <<>>
    /\ LET back == NewURL(Get(r.location[1].query, <<"redirect">>)[1], Origin)
       IN  back.pathname = req.pathname /\ back.query = req.query

\* C16 as stated: a request for a path that starts with /dashboard is
\* redirected to the login when it has no session, and passed when it has one
C16_AllDashboardPaths ==
    server.request.route = "page" =>
        IF /\ Len(server.request.pathname) >= 2
           /\ SubSeq(server.request.pathname, 1, 2) = <<"/", "dashboard">>
           /\ ~server.request.session
        THEN RedirectedToLogin(server.request, server.response)
        ELSE server.response.kind = "next"

\* C16 amended: a request for /dashboard or for a path under /dashboard/ is
\* redirected to / with login=1 and redirect = its path and query when it has
\* no session; every other request, the one for /dashboard_demo and the ones
\* with a session among them, is passed through
C16_DashboardTree ==
    server.request.route = "page" =>
        IF /\ \/ server.request.pathname = <<"/", "dashboard">>
              \/ /\ Len(server.request.pathname) >= 3
                 /\ SubSeq(server.request.pathname, 1, 3) = <<"/", "dashboard", "/">>
           /\ ~server.request.session
        THEN RedirectedToLogin(server.request, server.response)
        ELSE server.response.kind = "next"

\* /dashboard/settings?q=x%26y&login=0 was requested without a session
C16_Witness ==
    /\ server.request.route = "page"
    /\ server.request.pathname = <<"/", "dashboard", "/", "settings">>
    /\ ~server.request.session
    /\ server.response.kind = "redirect"
    /\ server.response.location[1].query
         = << <<<<"q">>, <<"x", "&", "y">>>>, <<<<"login">>, <<"1">>>>,
              <<<<"redirect">>, <<"/", "dashboard", "/", "settings", "?", "q", "=", "x",
                                  "%26", "y", "&", "login", "=", "0">>>> >>

-----------------------------------------------------------------------------
(* Claims on the home page and the login *)

\* C17: on the home page the middleware redirected to with login=1, the
\* store of the modal is open in the login mode before any button is pressed
C17_LoginOpens ==
    (/\ AtHome
     /\ browser.via = "middleware"
     /\ Get(browser.location.query, <<"login">>) = << <<"1">> >>
     /\ ~browser.clicked)
        => store.open /\ store.mode = "login"

\* /dashboard was requested without a session: the browser is on
\* /?login=1&redirect=%2Fdashboard, the home page is mounted and the modal is
\* closed
C17_Witness ==
    /\ server.request.route = "page"
    /\ server.request.pathname = <<"/", "dashboard">>
    /\ server.response.kind = "redirect"
    /\ browser.location.pathname = <<"/">>
    /\ browser.location.query
         = << <<<<"login">>, <<"1">>>>, <<<<"redirect">>, <<"/", "dashboard">>>> >>
    /\ ~browser.clicked
    /\ ~store.open
    /\ modal = Mounted("login")

\* the redirect parameter of the page, or /dashboard when it is absent or
\* empty
Remembered ==
    IF \E i \in 1..Len(browser.location.query) :
          /\ browser.location.query[i][1] = <<"redirect">>
          /\ browser.location.query[i][2] # <<>>
    THEN browser.location.query[
            CHOOSE i \in 1..Len(browser.location.query) :
                /\ browser.location.query[i][1] = <<"redirect">>
                /\ \A j \in 1..(i - 1) : browser.location.query[j][1] # <<"redirect">>][2]
    ELSE <<"/", "dashboard">>

\* C18: a handleLogin call that got past signInWithPassword ends with the
\* modal closed and router.push(next), whatever became of getSession and of
\* the POST to /auth/set; a call that ends before (an empty email or
\* password, an error of signInWithPassword) sets an error, leaves the
\* store as it is and starts no navigation
C18_Login ==
    /\ [][(/\ modal.step \in {"getSession", "fetch"}
           /\ modal'.step \in {"invalid", "thrown", "returned"})
             => /\ modal'.step = "returned"
                /\ ~store'.open
                /\ browser'.pushed = <<Remembered>>
                /\ browser'.location = browser.location
                /\ ~modal'.busy]_vars
    /\ [][(/\ modal.step \notin {"getSession", "fetch", "signUp", "signInWithOAuth",
                                "signInWithOtp"}
           /\ modal'.step # modal.step
           /\ modal'.step \in {"invalid", "thrown", "returned"})
             => /\ IF modal.step = "signInWithPassword"
                   THEN modal'.step = "thrown"
                   ELSE /\ modal'.step = "invalid"
                        /\ modal.email = "" \/ modal.password = ""
                /\ modal'.error # Null
                /\ store' = store
                /\ browser' = browser
                /\ ~modal'.busy]_vars

\* the login ended without the session in the cookies: the modal is closed
\* and the navigation to the remembered /dashboard/settings is started
C18_Witness ==
    /\ modal.step = "returned"
    /\ ~store.open
    /\ ~browser.cookie
    /\ server.request.route = "set"
    /\ server.response.status = 401
    /\ browser.pushed = << <<"/", "dashboard", "/", "settings">> >>

-----------------------------------------------------------------------------
(* Claims on AuthModal *)

\* C21: whenever open or initialMode (the mode of the store) changes, the
\* local mode is initialMode afterwards and email, password, error and
\* message are cleared
C21_Reset ==
    [][(store'.open # store.open \/ store'.mode # store.mode)
          => /\ modal'.mode = store'.mode
             /\ modal'.email = "" /\ modal'.password = ""
             /\ modal'.error = Null /\ modal'.message = Null]_vars

\* the modal was closed and opened again, in the signup mode, while a login
\* was awaiting signInWithPassword: the form that was submitted is empty
C21_Witness ==
    /\ store = [open |-> TRUE, mode |-> "signup"]
    /\ modal.step = "signInWithPassword"
    /\ modal.mode = "signup"
    /\ modal.email = "" /\ modal.password = ""
    /\ modal.error = Null /\ modal.message = Null

\* C22: a handleSignup call that awaited signUp ends in one of three ways:
\* with a session the store is closed and router.push(next) is called;
\* without one the store and the browser are as before, the message is
\* "Account created. Check your email to confirm." and the local mode is
\* login; with an error the error is set and the store, the browser and the
\* mode are as before
C22_Signup ==
    [][(/\ modal.step = "signUp"
        /\ modal'.step \in {"invalid", "thrown", "returned", "confirm"})
          => /\ ~modal'.busy
             /\ CASE modal'.step = "returned" ->
                        /\ ~store'.open
                        /\ browser'.pushed = <<Remembered>>
                        /\ browser'.location = browser.location
                        /\ modal'.error = Null
                    [] modal'.step = "confirm" ->
                        /\ store' = store
                        /\ browser' = browser
                        /\ modal'.message = "Account created. Check your email to confirm."
                        /\ modal'.mode = "login"
                        /\ modal'.error = Null
                    [] modal'.step = "thrown" ->
                        /\ modal'.error # Null
                        /\ modal'.mode = modal.mode
                        /\ store' = store
                        /\ browser' = browser
                    [] OTHER -> FALSE]_vars

\* a signup without a session ended: the modal is open with the message, in
\* the login mode, and no navigation is pending
C22_Witness ==
    /\ modal.step = "confirm"
    /\ store = [open |-> TRUE, mode |-> "signup"]
    /\ modal.mode = "login"
    /\ modal.message = "Account created. Check your email to confirm."
    /\ browser.pushed = <<>>

\* C23: busy is true exactly while an operation is in flight; while it is
\* true no operation starts, the one in flight moves to its next await or
\* ends (or the page is left); an operation that threw leaves its error
C23_Busy ==
    /\ [](modal.busy <=> modal.step \in {"signInWithPassword", "getSession", "fetch",
                                         "signUp", "signInWithOAuth", "signInWithOtp"})
    /\ [][(modal.busy /\ modal'.step # modal.step)
             => \/ modal'.step \in {"idle", "thrown", "returned", "confirm"}
                \/ <<modal.step, modal'.step>>
                      \in {<<"signInWithPassword", "getSession">>, <<"getSession", "fetch">>}]_vars
    /\ [][(modal.busy /\ modal'.step = "thrown") => modal'.error # Null]_vars

\* an operation threw an error without a message: busy is false again and
\* the error is the default one
C23_Witness ==
    /\ modal.step = "thrown"
    /\ ~modal.busy
    /\ modal.error = "Something went wrong."
    /\ store.open

-----------------------------------------------------------------------------
(* Claims on the auth routes *)

\* the value of the first parameter `name` of the query q, <<>> when q has
\* none
Param(q, name) ==
    IF \E i \in 1..Len(q) : q[i][1] = name
    THEN q[CHOOSE i \in 1..Len(q) :
              q[i][1] = name /\ \A j \in 1..(i - 1) : q[j][1] # name][2]
    ELSE <<>>

\* C19: GET /auth/callback with a code whose exchange fails redirects to
\* /?login=1&error=<message> and not to next; with a code whose exchange
\* succeeds, or without a code, it redirects to next, /dashboard when the
\* parameter is absent or empty
C19_Callback ==
    server.request.route = "callback" =>
        LET q      == server.request.query
            next   == IF Param(q, <<"next">>) = <<>> THEN <<"/", "dashboard">>
                      ELSE Param(q, <<"next">>)
            target == NewURL(next, Origin)
            failed == Param(q, <<"code">>) # <<>> /\ server.request.error # <<>>
        IN  /\ server.response.kind = "redirect"
            /\ IF failed
               THEN /\ server.response.location[1]
                        = [origin |-> Origin, pathname |-> <<"/">>,
                           query |-> << <<<<"login">>, <<"1">>>>,
                                        <<<<"error">>, server.request.error[1]>> >>]
                    /\ server.response.location[1] # target
               ELSE server.response.location[1] = target

\* the exchange of the code c1 failed with "invalid grant&next=x" while next
\* was /dashboard?tab=a
C19_Witness ==
    /\ server.request.route = "callback"
    /\ Param(server.request.query, <<"code">>) = <<"c1">>
    /\ Param(server.request.query, <<"next">>) = <<"/", "dashboard", "?", "tab", "=", "a">>
    /\ server.request.error = << <<"invalid", " ", "grant", "&", "next", "=", "x">> >>
    /\ server.response.location[1].pathname = <<"/">>
    /\ Len(server.response.location[1].query) = 2

\* C20: POST /auth/set answers 400 "Missing tokens" without a call of
\* cookies() or setSession when the body does not parse or lacks a non-empty
\* access_token or refresh_token, 401 with the message when setSession
\* reports an error, and {ok: true} only otherwise
C20_SetSession ==
    server.request.route = "set" =>
        LET json    == server.request.json
            missing == \/ json = <<>>
                       \/ "access_token" \notin DOMAIN json[1]
                       \/ "refresh_token" \notin DOMAIN json[1]
                       \/ json[1].access_token = ""
                       \/ json[1].refresh_token = ""
        IN  /\ server.response.kind = "json"
            /\ IF missing
               THEN /\ server.response.status = 400
                    /\ server.response.body = [ok |-> FALSE, error |-> "Missing tokens"]
                    /\ server.response.calls = {}
               ELSE IF server.request.error # <<>>
               THEN /\ server.response.status = 401
                    /\ server.response.body
                         = [ok |-> FALSE, error |-> server.request.error[1]]
               ELSE /\ server.response.status = 200
                    /\ server.response.body.ok
            /\ server.response.body.ok
                  => ~missing /\ server.request.error = <<>>

\* a body with an access_token and no refresh_token was posted
C20_Witness ==
    /\ server.request.route = "set"
    /\ server.request.json = <<[access_token |-> "at"]>>
    /\ server.response.status = 400
    /\ "setSession" \notin server.response.calls

====
